---- MODULE Spec2Model ----
(***************************************************************************)
(* A model of the java2go translator: symbol-table construction            *)
(* (symbol/parsing.go), declaration lowering (declaration.go), expression  *)
(* lowering (expression.go) and the per-file driver.                       *)
(*                                                                         *)
(* Strings the program takes apart (names, Java type strings) are          *)
(* sequences of one-character strings, so that capitalisation,             *)
(* concatenation and prefix tests are computed, not assumed.               *)
(***************************************************************************)
EXTENDS Integers, Sequences, FiniteSets, TLC

VARIABLES
    src,          \* the input: per file, the concrete-syntax tree handed to the translator
    pc,           \* per file, the phase the driver has reached for it
    Symbols,      \* per file, the FileScope built by ParseSymbols (NoScope before)
    GlobalScope,  \* the package registry: package name -> files registered in it
    out,          \* per file, the emitted declarations (NoOut before lowering)
    rerun,        \* the declarations emitted by a second translation of file 1
    reported,     \* names of the files the driver reported as failed
    ctx,          \* the Ctx of the expression being lowered
    query,        \* the expression node being lowered
    result        \* the lowered expression

vars == <<src, pc, Symbols, GlobalScope, out, rerun, reported, ctx, query, result>>

----------------------------------------------------------------------------
(* Bounds *)

MaxMembers == 2
MaxConstants == 2
NumFiles == 2

----------------------------------------------------------------------------
(* Strings *)

NoStr == <<>>

s_A == <<"A">>
s_B == <<"B">>
s_Z == <<"Z">>
s_X == <<"X">>
s_K == <<"K">>
s_L == <<"L">>
s_T == <<"T">>
s_m == <<"m">>
s_n == <<"n">>
s_f == <<"f">>
s_g == <<"g">>
s_o == <<"o">>
s_x == <<"x">>
s_y == <<"y">>
s_b == <<"b">>
s_h == <<"h">>
s_k == <<"k">>
s_l == <<"l">>
s_z == <<"z">>
s_int == <<"i", "n", "t">>
s_int32 == <<"i", "n", "t", "3", "2">>
s_String == <<"S", "t", "r", "i", "n", "g">>
s_string == <<"s", "t", "r", "i", "n", "g">>
s_New == <<"N", "e", "w">>
s_Helper == <<"H", "e", "l", "p", "e", "r">>
s_Construct == <<"C", "o", "n", "s", "t", "r", "u", "c", "t">>
s_Values == <<"V", "a", "l", "u", "e", "s">>
s_values == <<"v", "a", "l", "u", "e", "s">>
s_default == <<"d", "e", "f", "a", "u", "l", "t">>
s_us == <<"_">>
s_p == <<"p">>
s_q == <<"q">>

\* body at the value v: v is computed at most once, when body first needs it
Let(v, body(_)) == body(v)
Let2(v, w, body(_, _)) == body(v, w)

SeqRange(s) == {s[i] : i \in DOMAIN s}

LowerLetters ==
    << "a", "b", "c", "d", "e", "f", "g", "h", "i", "j", "k", "l",
       "m", "n", "o", "p", "q", "r", "s", "t", "u", "v", "w", "x",
       "y", "z" >>

UpperLetters ==
    << "A", "B", "C", "D", "E", "F", "G", "H", "I", "J", "K", "L",
       "M", "N", "O", "P", "Q", "R", "S", "T", "U", "V", "W", "X",
       "Y", "Z" >>

LowerOf ==
    [c \in SeqRange(UpperLetters) |->
        LowerLetters[CHOOSE i \in DOMAIN UpperLetters : UpperLetters[i] = c]]

UpperOf ==
    [c \in SeqRange(LowerLetters) |->
        UpperLetters[CHOOSE i \in DOMAIN LowerLetters : LowerLetters[i] = c]]

ToLower(c) == IF c \in DOMAIN LowerOf THEN LowerOf[c] ELSE c
ToUpper(c) == IF c \in DOMAIN UpperOf THEN UpperOf[c] ELSE c

IsUpperChar(c) == c \in DOMAIN LowerOf
IsLowerChar(c) == c \in DOMAIN UpperOf

Uppercase(name) == IF name = <<>> THEN name ELSE <<ToUpper(name[1])>> \o Tail(name)
Lowercase(name) == IF name = <<>> THEN name ELSE <<ToLower(name[1])>> \o Tail(name)

\* symbol.HandleExportStatus: exported names are capitalised, the others lower-cased
HandleExportStatus(exported, name) == IF exported THEN Uppercase(name) ELSE Lowercase(name)

\* ShortName: first and last character of the name, lower-cased
ShortName(longName) ==
    IF Len(longName) = 0 THEN <<>>
    ELSE <<ToLower(longName[1]), ToLower(longName[Len(longName)])>>

\* the index of the first occurrence of character c in s, 0 when absent
RECURSIVE IndexFrom(_, _, _)
IndexFrom(s, c, i) ==
    IF i > Len(s) THEN 0
    ELSE IF s[i] = c THEN i
    ELSE IndexFrom(s, c, i + 1)

IndexOf(s, c) == IndexFrom(s, c, 1)

RECURSIVE LastIndexFrom(_, _, _)
LastIndexFrom(s, c, i) ==
    IF i < 1 THEN 0
    ELSE IF s[i] = c THEN i
    ELSE LastIndexFrom(s, c, i - 1)

LastIndexOf(s, c) == LastIndexFrom(s, c, Len(s))

\* all sequences over S of length at most n
RECURSIVE SeqsUpTo(_, _)
SeqsUpTo(S, n) ==
    IF n = 0 THEN {<<>>}
    ELSE Let(SeqsUpTo(S, n - 1), LAMBDA shorter :
            shorter \cup {Append(s, e) : s \in {t \in shorter : Len(t) = n - 1}, e \in S})

----------------------------------------------------------------------------
(* The concrete-syntax tree, as far as the translator looks at it.         *)
(*   type node    : its source text (the node kind follows from the text)  *)
(*   parameter    : [name, type]                                           *)
(*   method node  : [kind, name, mods, annots, tparams, params, type,      *)
(*                   hasBody, nscopes, body]; body is the sequence of the  *)
(*                   expression statements of the block                    *)
(*   field node   : [kind, name, mods, annots, type]                       *)
(*   constant node: [name, args, hasBody, methods]                         *)
(*   class node   : [kind, name, mods, tparams, superclass, interfaces,    *)
(*                   constants, members]                                   *)
(*   file node    : [name, package, imports, classes]                      *)

Nil == [nil |-> TRUE]

s_void == <<"v", "o", "i", "d">>

\* the node kind the external parser gives a type with this source text
TypeNodeKind(text) ==
    IF text = s_int THEN "integral_type"
    ELSE IF text = s_void THEN "void_type"
    ELSE IF IndexOf(text, "<") > 0 THEN "generic_type"
    ELSE IF IndexOf(text, ".") > 0 THEN "scoped_type_identifier"
    ELSE "type_identifier"

\* astutil.ParseTypeWithTypeParams followed by nodeToStr, for the node kinds
\* integral_type (int), void_type, type_identifier and scoped_type_identifier
ParseTypeWithTypeParams(text, typeParams) ==
    Let(TypeNodeKind(text), LAMBDA kind :
        CASE kind = "integral_type" -> s_int32
          [] kind = "void_type" -> NoStr
          [] kind = "type_identifier" ->
                IF text = s_String THEN s_string
                ELSE IF \E i \in DOMAIN typeParams : typeParams[i] = text THEN text
                ELSE <<"*">> \o text
          [] OTHER -> <<"*">> \o text)

----------------------------------------------------------------------------
(* symbol: Definition, TypeParam, ClassScope, FileScope *)

MkDef(o, n, ot, t, tps, st, rh, hn, c, ps, ch) ==
    [OriginalName |-> o, Name |-> n, OriginalType |-> ot, Type |-> t,
     TypeParameters |-> tps, IsStatic |-> st, RequiresHelper |-> rh,
     HelperName |-> hn, Constructor |-> c, Parameters |-> ps, Children |-> ch]

\* a Definition with every field at its zero value
EmptyDef == MkDef(NoStr, NoStr, NoStr, NoStr, <<>>, FALSE, FALSE, NoStr, FALSE, <<>>, <<>>)

\* a variable (field, parameter or local): only names and types are set
VarDef(o, n, ot, t) == MkDef(o, n, ot, t, <<>>, FALSE, FALSE, NoStr, FALSE, <<>>, <<>>)

TypeParamNames(params) == [i \in DOMAIN params |-> params[i].Name]

\* the outer parameters kept whether shadowed or not (a merge without shadowing)
FilterNotShadowed_KeepAll(outer, shadowed) == outer

RECURSIVE FilterNotShadowed(_, _)
FilterNotShadowed(outer, shadowed) ==
    IF outer = <<>> THEN <<>>
    ELSE IF Head(outer).Name \in shadowed
         THEN FilterNotShadowed(Tail(outer), shadowed)
         ELSE <<Head(outer)>> \o FilterNotShadowed(Tail(outer), shadowed)

MergeTypeParams(outer, inner) ==
    IF Len(outer) = 0 THEN inner
    ELSE IF Len(inner) = 0 THEN outer
    ELSE FilterNotShadowed(outer, {inner[i].Name : i \in DOMAIN inner}) \o inner

extractTypeParameters(tparams) ==
    [i \in DOMAIN tparams |-> [Name |-> tparams[i].name, Bounds |-> tparams[i].bounds]]

\* the first element of seq satisfying P, Nil when there is none
FirstWhere(seq, P(_)) ==
    Let({i \in DOMAIN seq : P(seq[i])}, LAMBDA hits :
        IF hits = {} THEN Nil ELSE seq[CHOOSE i \in hits : \A j \in hits : i <= j])

ParameterByName(d, name) ==
    FirstWhere(d.Parameters, LAMBDA p : p.OriginalName = name)

FindVariable(d, name) ==
    Let(ParameterByName(d, name), LAMBDA param :
        IF param # Nil THEN param
        ELSE FirstWhere(d.Children, LAMBDA child : child.OriginalName = name))

FindFieldByName(cs, name) ==
    FirstWhere(cs.Fields, LAMBDA fd : fd.OriginalName = name)

ClassTypeParameterNames(cs) == TypeParamNames(cs.TypeParameters)

\* the helper rule without the test for a static method
requiresHelper_StaticToo(kind, methodTypeParams, isStatic) ==
    kind = "method_declaration" /\ Len(methodTypeParams) > 0

\* parseClassMember's test for modelling a method through a helper type
requiresHelper(kind, methodTypeParams, isStatic) ==
    kind = "method_declaration" /\ Len(methodTypeParams) > 0 /\ ~isStatic

\* parseScope: one unnamed child scope per loop or if statement of the body;
\* local variable declarations are not recorded
parseScope(node) == [i \in 1..node.nscopes |-> EmptyDef]

\* the local scope after the statement lowerer has passed the declaration of a
\* local variable: the name is visible to the expressions that follow
DeclareLocal(def, name, type) ==
    [def EXCEPT !.Children = Append(@, VarDef(name, name, type, NoStr))]

\* the superclass string of a class declaration
SuperclassOf(node) == node.superclass

\* an enum constant: its name, its arguments and its optional class body
parseEnumConstant(node) ==
    [Name |-> node.name, Arguments |-> node.args,
     HasBody |-> node.hasBody,
     Body |-> IF node.hasBody THEN node.methods ELSE <<>>]

\* the nested class under its own name alone
subclassName_Own(outer, inner) == inner

\* the name a nested class is renamed to: that of the enclosing class, then its own
subclassName(outer, inner) == outer \o inner

RECURSIVE parseClassScopeWithParentTypeParams(_, _)
RECURSIVE parseClassMember(_, _)
RECURSIVE parseMembers(_, _)

parseMembers(scope, nodes) ==
    IF nodes = <<>> THEN scope
    ELSE parseMembers(parseClassMember(scope, Head(nodes)), Tail(nodes))

parseClassMember(scope, node) ==
    CASE node.kind = "field_declaration" ->
            [scope EXCEPT !.Fields = Append(@,
                VarDef(node.name, HandleExportStatus("public" \in node.mods, node.name),
                       node.type,
                       ParseTypeWithTypeParams(node.type, ClassTypeParameterNames(scope))))]
      [] node.kind \in {"method_declaration", "constructor_declaration"} ->
            LET public == "public" \in node.mods
                isStatic == "static" \in node.mods
                isMethod == node.kind = "method_declaration"
            IN  Let2(extractTypeParameters(node.tparams),
                     IF isMethod THEN HandleExportStatus(public, node.name)
                     ELSE HandleExportStatus(public, s_New) \o node.name,
                     LAMBDA methodTypeParams, declName :
                Let2(TypeParamNames(MergeTypeParams(scope.TypeParameters, methodTypeParams)),
                     requiresHelper(node.kind, methodTypeParams, isStatic),
                     LAMBDA combinedTypeParamNames, helper :
                    [scope EXCEPT !.Methods = Append(@,
                        MkDef(node.name, declName,
                              IF isMethod THEN node.type ELSE NoStr,
                              IF isMethod
                                THEN ParseTypeWithTypeParams(node.type, combinedTypeParamNames)
                                ELSE scope.Class.OriginalName,
                              methodTypeParams, isStatic, helper,
                              IF helper THEN scope.Class.Name \o declName \o s_Helper ELSE NoStr,
                              ~isMethod,
                              [i \in DOMAIN node.params |->
                                  VarDef(node.params[i].name, node.params[i].name,
                                         node.params[i].type,
                                         ParseTypeWithTypeParams(node.params[i].type,
                                                                 combinedTypeParamNames))],
                              IF node.hasBody THEN parseScope(node) ELSE <<>>))]))
      [] node.kind \in {"class_declaration", "interface_declaration", "enum_declaration"} ->
            Let(parseClassScopeWithParentTypeParams(node, scope.TypeParameters), LAMBDA other :
                [scope EXCEPT !.Subclasses = Append(@,
                    [other EXCEPT !.Class.Name =
                                     subclassName(scope.Class.Name, other.Class.Name)])])
      [] OTHER -> scope

parseClassScopeWithParentTypeParams(root, parentTypeParams) ==
    parseMembers([Class |-> VarDef(root.name,
                                   HandleExportStatus("public" \in root.mods, root.name),
                                   NoStr, NoStr),
                  Superclass |-> SuperclassOf(root),
                  TypeParameters |->
                      MergeTypeParams(parentTypeParams, extractTypeParameters(root.tparams)),
                  Fields |-> <<>>,
                  Methods |-> <<>>,
                  Subclasses |-> <<>>,
                  IsEnum |-> root.kind = "enum_declaration",
                  EnumConstants |->
                      [i \in DOMAIN root.constants |-> parseEnumConstant(root.constants[i])]],
                 root.members)

parseClassScope(root) == parseClassScopeWithParentTypeParams(root, <<>>)

\* ParseSymbols: the FileScope of one file
ParseSymbols(file) ==
    Let([i \in DOMAIN file.classes |-> parseClassScope(file.classes[i])], LAMBDA classScopes :
        [Imports |-> file.imports,
         Package |-> file.package,
         TopLevelClasses |-> classScopes,
         BaseClass |-> IF Len(classScopes) > 0 THEN classScopes[1] ELSE Nil])

RECURSIVE FindClassScopeIn(_, _)
RECURSIVE FindClassScopeInSeq(_, _)
\* ClassScope.FindClassScope: the scope itself or the first nested scope, depth first
FindClassScopeIn(cs, name) ==
    IF cs.Class.OriginalName = name THEN cs
    ELSE FindClassScopeInSeq(cs.Subclasses, name)

FindClassScopeInSeq(seq, name) ==
    IF seq = <<>> THEN Nil
    ELSE Let(FindClassScopeIn(Head(seq), name), LAMBDA found :
            IF found # Nil THEN found ELSE FindClassScopeInSeq(Tail(seq), name))

\* FileScope.FindClassScope
FileFindClassScope(fs, name) == FindClassScopeInSeq(fs.TopLevelClasses, name)

\* findClassScopeByName of expression.go
findClassScopeByName(scope, name) ==
    IF scope = Nil THEN Nil ELSE FindClassScopeIn(scope, name)

----------------------------------------------------------------------------
(* Java type strings (expression.go) *)

RECURSIVE TrimLeft(_)
TrimLeft(s) == IF s # <<>> /\ Head(s) = " " THEN TrimLeft(Tail(s)) ELSE s

RECURSIVE TrimRight(_)
TrimRight(s) ==
    IF s # <<>> /\ s[Len(s)] = " " THEN TrimRight(SubSeq(s, 1, Len(s) - 1)) ELSE s

TrimSpace(s) == TrimRight(TrimLeft(s))

HasPrefix(s, pre) == Len(s) >= Len(pre) /\ SubSeq(s, 1, Len(pre)) = pre
HasSuffix(s, suf) == Len(s) >= Len(suf) /\ SubSeq(s, Len(s) - Len(suf) + 1, Len(s)) = suf

\* the closing of the current argument by the scan: it joins the arguments
\* unless it is blank
flushTypeArg(current, acc) ==
    Let(TrimSpace(current), LAMBDA arg : IF arg # <<>> THEN Append(acc, arg) ELSE acc)

\* the scan of extractTypeArgsFromString over argsStr from position i:
\* [ok, args] where ok is FALSE when a '>' closes more than was opened or a
\* '<' stays open
RECURSIVE splitTypeArgs(_, _, _, _, _)
splitTypeArgs(argsStr, i, depth, current, acc) ==
    IF i > Len(argsStr)
    THEN IF depth # 0 THEN [ok |-> FALSE, args |-> <<>>]
         ELSE [ok |-> TRUE, args |-> flushTypeArg(current, acc)]
    ELSE Let(argsStr[i], LAMBDA ch :
            CASE ch = "<" -> splitTypeArgs(argsStr, i + 1, depth + 1, Append(current, ch), acc)
              [] ch = ">" ->
                    IF depth - 1 < 0 THEN [ok |-> FALSE, args |-> <<>>]
                    ELSE splitTypeArgs(argsStr, i + 1, depth - 1, Append(current, ch), acc)
              [] ch = "," ->
                    IF depth = 0
                    THEN splitTypeArgs(argsStr, i + 1, depth, <<>>, flushTypeArg(current, acc))
                    ELSE splitTypeArgs(argsStr, i + 1, depth, Append(current, ch), acc)
              [] OTHER -> splitTypeArgs(argsStr, i + 1, depth, Append(current, ch), acc))

\* extractTypeArgsFromString: the top-level type arguments of a type string;
\* the empty sequence stands for the nil result
extractTypeArgsFromString(typeStr) ==
    Let2(IndexOf(typeStr, "<"), LastIndexOf(typeStr, ">"), LAMBDA start, end :
        IF start = 0 \/ end = 0 \/ end <= start THEN <<>>
        ELSE splitTypeArgs(SubSeq(typeStr, start + 1, end - 1), 1, 0, <<>>, <<>>).args)

\* parseJavaTypeString: [base, args]
parseJavaTypeString(typeStr) ==
    Let(TrimSpace(typeStr), LAMBDA t :
        IF t = <<>> THEN [base |-> <<>>, args |-> <<>>]
        ELSE Let(IndexOf(t, "<"), LAMBDA idx :
                [base |-> IF idx > 0 THEN TrimSpace(SubSeq(t, 1, idx - 1)) ELSE t,
                 args |-> extractTypeArgsFromString(t)]))

stripJavaQualifier(typeName) ==
    Let(TrimSpace(typeName), LAMBDA t :
        Let(LastIndexOf(t, "."), LAMBDA idx :
            IF idx > 0 THEN SubSeq(t, idx + 1, Len(t)) ELSE t))

----------------------------------------------------------------------------
(* The emitted expressions (go/ast) *)

Ident(n) == [e |-> "Ident", Name |-> n]
SelectorExpr(x, sel) == [e |-> "Selector", X |-> x, Sel |-> sel]
CallExpr(fun, args) == [e |-> "Call", Fun |-> fun, Args |-> args]
IndexExpr(x, indices) == [e |-> "Index", X |-> x, Indices |-> indices]
StarExpr(x) == [e |-> "Star", X |-> x]
ArrayType(elt) == [e |-> "Array", Elt |-> elt]
\* &T{}
CompositeLit(type) == [e |-> "CompositeLit", Type |-> type]
UnaryExpr(op, x) == [e |-> "Unary", Op |-> op, X |-> x]
ParenExpr(x) == [e |-> "Paren", X |-> x]
BadExpr == [e |-> "Bad"]
\* the lowering panicked instead of returning an expression
PanicExpr == [e |-> "Panic"]

s_any == <<"a", "n", "y">>

\* applyTypeArguments: fun[args...], fun itself when there are none
applyTypeArguments(fun, args) == IF Len(args) = 0 THEN fun ELSE IndexExpr(fun, args)

RECURSIVE wrapArray(_, _)
wrapArray(expr, dims) == IF dims = 0 THEN expr ELSE wrapArray(ArrayType(expr), dims - 1)

\* the loop that strips trailing "[]" pairs: [str, dims]
RECURSIVE stripArrayDims(_, _)
stripArrayDims(typeStr, dims) ==
    IF HasSuffix(typeStr, <<"[", "]">>)
    THEN stripArrayDims(TrimSpace(SubSeq(typeStr, 1, Len(typeStr) - 2)), dims + 1)
    ELSE [str |-> typeStr, dims |-> dims]

primitive(name) ==
    CASE name = s_String -> s_string
      [] name = s_int -> s_int32
      [] OTHER -> <<>>

s_extends == <<"e", "x", "t", "e", "n", "d", "s">>

RECURSIVE javaTypeStringToGoTypeExpr(_, _)
javaTypeStringToGoTypeExpr(typeStr0, typeParams) ==
    Let(TrimSpace(typeStr0), LAMBDA trimmed :
    IF trimmed = <<>> THEN Ident(s_any)
    ELSE Let(stripArrayDims(trimmed, 0), LAMBDA stripped :
    IF HasPrefix(stripped.str, <<"?">>)
    THEN Let(TrimSpace(Tail(stripped.str)), LAMBDA rest :
            IF rest = <<>> THEN Ident(s_any)
            ELSE IF HasPrefix(rest, s_extends)
            THEN Let(TrimSpace(SubSeq(rest, Len(s_extends) + 1, Len(rest))), LAMBDA bound :
                    IF bound = <<>> THEN Ident(s_any)
                    ELSE javaTypeStringToGoTypeExpr(bound, typeParams))
            ELSE Ident(s_any))
    ELSE Let(parseJavaTypeString(stripped.str), LAMBDA parsed :
         Let2(stripJavaQualifier(parsed.base), primitive(stripJavaQualifier(parsed.base)),
              LAMBDA base, prim :
            wrapArray(IF prim # <<>> THEN Ident(prim)
                      ELSE IF \E i \in DOMAIN typeParams : typeParams[i] = base THEN Ident(base)
                      ELSE IF Len(parsed.args) > 0
                      THEN StarExpr(applyTypeArguments(Ident(base),
                              [i \in DOMAIN parsed.args |->
                                  javaTypeStringToGoTypeExpr(parsed.args[i], typeParams)]))
                      ELSE StarExpr(Ident(base)),
                      stripped.dims)))))

----------------------------------------------------------------------------
(* Class lookup through the file, the package registry and the imports *)

\* Ctx: the lowering context
Ctx(currentFile, currentClass, className, localScope, expectedType) ==
    [currentFile |-> currentFile, currentClass |-> currentClass, className |-> className,
     localScope |-> localScope, expectedType |-> expectedType]

\* the least element of a non-empty set of file numbers
MinOf(S) == CHOOSE f \in S : \A g \in S : f <= g

\* GlobalScope.FindPackage(pkgPath).FindClassScope(name): the class of that
\* simple name among the files registered in the package, Nil when the
\* package or the class is not registered
PackageFindClassScope(pkgPath, name) ==
    IF pkgPath \notin DOMAIN GlobalScope THEN Nil
    ELSE Let({f \in GlobalScope[pkgPath] : FileFindClassScope(Symbols[f], name) # Nil},
             LAMBDA hits :
                IF hits = {} THEN Nil ELSE FileFindClassScope(Symbols[MinOf(hits)], name))

resolveClassScopeByQualifiedName(c, name0) ==
    IF c.currentFile = Nil THEN Nil
    ELSE Let(TrimSpace(name0), LAMBDA name1 :
    IF name1 = <<>> THEN Nil
    ELSE Let(LastIndexOf(name1, "."), LAMBDA idx :
    Let2(IF idx > 0 THEN SubSeq(name1, idx + 1, Len(name1)) ELSE name1,
         IF idx > 0
         THEN PackageFindClassScope(SubSeq(name1, 1, idx - 1),
                                    SubSeq(name1, idx + 1, Len(name1)))
         ELSE Nil,
         LAMBDA name, qualified :
    IF qualified # Nil THEN qualified
    ELSE Let(FileFindClassScope(c.currentFile, name), LAMBDA inFile :
    IF inFile # Nil THEN inFile
    ELSE Let(PackageFindClassScope(c.currentFile.Package, name), LAMBDA inPackage :
    IF inPackage # Nil THEN inPackage
    ELSE IF name \in DOMAIN c.currentFile.Imports
    THEN PackageFindClassScope(c.currentFile.Imports[name], name)
    ELSE Nil)))))

resolveClassScopeByIdentifier(c, objectNode) ==
    IF objectNode = Nil THEN Nil
    ELSE IF objectNode.kind # "identifier" THEN Nil
    ELSE resolveClassScopeByQualifiedName(c, objectNode.name)

resolveSuperclassScope(c, scope) ==
    IF scope = Nil THEN Nil
    ELSE IF TrimSpace(scope.Superclass) = <<>> THEN Nil
    ELSE resolveClassScopeByQualifiedName(c, parseJavaTypeString(scope.Superclass).base)

\* methodResolution
Resolution(def, owner) == [def |-> def, owner |-> owner]

\* the loop shared by findInstanceMethodInHierarchy and
\* findStaticMethodInHierarchy: the first method of the wanted kind with that
\* name and parameter count, from scope up the superclass chain
RECURSIVE findMethodInHierarchy(_, _, _, _, _, _)
\* a lookup that stops at the class it starts from
findMethodInHierarchy_OwnClassOnly(scope, seen, methodName, argCount, static, c) ==
    IF scope = Nil THEN Nil
    ELSE Let(FirstWhere(scope.Methods,
                        LAMBDA def : /\ def.IsStatic = static
                                     /\ def.OriginalName = methodName
                                     /\ Len(def.Parameters) = argCount),
             LAMBDA found : IF found # Nil THEN Resolution(found, scope) ELSE Nil)

findMethodInHierarchy(scope, seen, methodName, argCount, static, c) ==
    IF scope = Nil THEN Nil
    ELSE IF scope \in seen THEN Nil
    ELSE Let(FirstWhere(scope.Methods,
                        LAMBDA def : /\ def.IsStatic = static
                                     /\ def.OriginalName = methodName
                                     /\ Len(def.Parameters) = argCount),
             LAMBDA found :
                IF found # Nil THEN Resolution(found, scope)
                ELSE findMethodInHierarchy(resolveSuperclassScope(c, scope),
                                           seen \cup {scope}, methodName, argCount, static, c))

\* a lookup that takes static methods for instance methods
findInstanceMethodInHierarchy_Static(start, methodName, argCount, c) ==
    findMethodInHierarchy(start, {}, methodName, argCount, TRUE, c)

findInstanceMethodInHierarchy(start, methodName, argCount, c) ==
    findMethodInHierarchy(start, {}, methodName, argCount, FALSE, c)

findStaticMethodInHierarchy(start, methodName, argCount, c) ==
    findMethodInHierarchy(start, {}, methodName, argCount, TRUE, c)

RECURSIVE findFieldFrom(_, _, _, _)
findFieldFrom(scope, seen, fieldName, c) ==
    IF scope = Nil THEN Nil
    ELSE IF scope \in seen THEN Nil
    ELSE Let(FindFieldByName(scope, fieldName), LAMBDA def :
            IF def # Nil THEN def
            ELSE findFieldFrom(resolveSuperclassScope(c, scope), seen \cup {scope},
                               fieldName, c))

findFieldInHierarchy(start, fieldName, c) == findFieldFrom(start, {}, fieldName, c)

findStaticMethodByNameAndArgCount(scope, methodName, argCount) ==
    IF scope = Nil THEN Nil
    ELSE FirstWhere(scope.Methods,
                    LAMBDA def : /\ def.IsStatic
                                 /\ def.OriginalName = methodName
                                 /\ Len(def.Parameters) = argCount)

findMatchingConstructor(scope, className, argumentTypes) ==
    IF scope = Nil THEN Nil
    ELSE FirstWhere(scope.Methods,
            LAMBDA def :
                /\ def.Constructor
                /\ def.OriginalName = className
                /\ Len(def.Parameters) = Len(argumentTypes)
                /\ \A i \in DOMAIN def.Parameters :
                      \/ argumentTypes[i] = <<>>
                      \/ def.Parameters[i].OriginalType = argumentTypes[i]
                      \/ def.Parameters[i].OriginalType
                            \in SeqRange(ClassTypeParameterNames(scope))
                                  \cup SeqRange(TypeParamNames(def.TypeParameters)))

inScopeTypeParameters(c) ==
    (IF c.currentClass # Nil THEN ClassTypeParameterNames(c.currentClass) ELSE <<>>)
      \o (IF c.localScope # Nil THEN TypeParamNames(c.localScope.TypeParameters) ELSE <<>>)

typeParamExprs(params) == [i \in DOMAIN params |-> Ident(params[i])]

----------------------------------------------------------------------------
(* Expression lowering (expression.go).                                    *)
(*   expression node: [kind, name, object, args, targs, type]              *)
(*     name   : the identifier, method name, field name or literal text    *)
(*     object : the node before the dot, Nil when there is none            *)
(*     args   : the argument nodes                                         *)
(*     targs  : the source texts of the explicit type arguments            *)
(*     type   : the source text of the created type                        *)

Node(kind, name, object, args, targs, type) ==
    [kind |-> kind, name |-> name, object |-> object, args |-> args,
     targs |-> targs, type |-> type]

RECURSIVE JoinComma(_)
JoinComma(names) ==
    IF names = <<>> THEN <<>>
    ELSE IF Len(names) = 1 THEN names[1]
    ELSE names[1] \o <<",", " ">> \o JoinComma(Tail(names))

\* the Java type of a literal argument, the empty string for what is no literal
TypeOfLiteral(node) ==
    CASE node.kind = "decimal_integer_literal" -> s_int
      [] node.kind = "string_literal" -> s_String
      [] OTHER -> NoStr

\* an extraction that finds no type argument
ExtractTypeArguments_None(text) == <<>>

\* astutil.ExtractTypeArguments: the texts of the type arguments of a
\* generic_type node
ExtractTypeArguments(text) ==
    IF TypeNodeKind(text) # "generic_type" THEN <<>>
    ELSE splitTypeArgs(SubSeq(text, IndexOf(text, "<") + 1, LastIndexOf(text, ">") - 1),
                       1, 0, <<>>, <<>>).args

\* [ok, type]: the Java type of a name known to the context
inferIdentifierJavaType(name, c) ==
    LET typed(d) == IF d = Nil THEN FALSE ELSE d.OriginalType # <<>>
    IN  Let(IF c.localScope # Nil THEN ParameterByName(c.localScope, name) ELSE Nil,
            LAMBDA param :
        IF typed(param) THEN [ok |-> TRUE, type |-> param.OriginalType]
        ELSE Let(IF c.localScope # Nil THEN FindVariable(c.localScope, name) ELSE Nil,
                 LAMBDA local :
        IF typed(local) THEN [ok |-> TRUE, type |-> local.OriginalType]
        ELSE Let(IF c.currentClass # Nil THEN findFieldInHierarchy(c.currentClass, name, c)
                 ELSE Nil,
                 LAMBDA field :
        IF typed(field) THEN [ok |-> TRUE, type |-> field.OriginalType]
        ELSE [ok |-> FALSE, type |-> NoStr])))

inferExprJavaType(node, c) ==
    CASE node.kind = "identifier" -> inferIdentifierJavaType(node.name, c)
      [] node.kind = "this" ->
            IF c.currentClass = Nil THEN [ok |-> FALSE, type |-> NoStr]
            ELSE IF Len(c.currentClass.TypeParameters) = 0
            THEN [ok |-> TRUE, type |-> c.currentClass.Class.OriginalName]
            ELSE [ok |-> TRUE,
                  type |-> c.currentClass.Class.OriginalName \o <<"<">>
                             \o JoinComma(ClassTypeParameterNames(c.currentClass)) \o <<">">>]
      [] node.kind = "object_creation_expression" -> [ok |-> TRUE, type |-> node.type]
      [] OTHER -> [ok |-> FALSE, type |-> NoStr]

\* invocationTargetInfo
TargetInfo(classScope, classTypeArgs) ==
    [classScope |-> classScope, classTypeArgs |-> classTypeArgs]

resolveInvocationTarget(objectNode, c) ==
    IF c.currentFile = Nil THEN Nil
    ELSE Let(CASE objectNode.kind = "this" ->
                    IF c.currentClass = Nil THEN [ok |-> FALSE]
                    ELSE [ok |-> TRUE, class |-> c.currentClass.Class.OriginalName,
                          args |-> ClassTypeParameterNames(c.currentClass)]
               [] objectNode.kind = "super" ->
                    IF c.currentClass = Nil THEN [ok |-> FALSE]
                    ELSE Let(TrimSpace(c.currentClass.Superclass), LAMBDA superType :
                            IF superType = <<>> THEN [ok |-> FALSE]
                            ELSE Let(parseJavaTypeString(superType), LAMBDA parsed :
                                    [ok |-> TRUE, class |-> parsed.base,
                                     args |-> parsed.args]))
               [] OTHER ->
                    Let(IF objectNode.kind = "identifier"
                        THEN inferIdentifierJavaType(objectNode.name, c)
                        ELSE inferExprJavaType(objectNode, c),
                        LAMBDA inferred :
                            IF ~inferred.ok THEN [ok |-> FALSE]
                            ELSE Let(parseJavaTypeString(inferred.type), LAMBDA parsed :
                                    [ok |-> TRUE, class |-> parsed.base,
                                     args |-> parsed.args])),
             LAMBDA named :   \* [ok, class, args]
        IF ~named.ok THEN Nil
        ELSE Let2(resolveClassScopeByQualifiedName(c, named.class), inScopeTypeParameters(c),
                  LAMBDA classScope, scopeTypeParams :
            IF classScope = Nil THEN Nil
            ELSE TargetInfo(classScope,
                            [i \in DOMAIN named.args |->
                                javaTypeStringToGoTypeExpr(named.args[i], scopeTypeParams)])))

explicitTypeArgumentExprs(node, typeParams) ==
    [i \in DOMAIN node.targs |-> javaTypeStringToGoTypeExpr(node.targs[i], typeParams)]

\* no type argument is ever inferred from the arguments of the call
resolvedTypeArg_None(def, tp, node, c, idx) == Nil

\* the type argument inferred for type parameter tp: the last parameter typed
\* tp whose argument has a known Java type decides
RECURSIVE resolvedTypeArg(_, _, _, _, _)
resolvedTypeArg(def, tp, node, c, idx) ==
    IF idx = 0 THEN Nil
    ELSE IF def.Parameters[idx].OriginalType = tp /\ idx <= Len(node.args)
    THEN Let(inferExprJavaType(node.args[idx], c), LAMBDA inferred :
            IF inferred.ok
            THEN javaTypeStringToGoTypeExpr(inferred.type, inScopeTypeParameters(c))
            ELSE resolvedTypeArg(def, tp, node, c, idx - 1))
    ELSE resolvedTypeArg(def, tp, node, c, idx - 1)

inferMethodTypeArguments(def, node, c) ==
    IF Len(def.TypeParameters) = 0 THEN <<>>
    ELSE Let(explicitTypeArgumentExprs(node, inScopeTypeParameters(c)), LAMBDA explicit :
        IF Len(explicit) = Len(def.TypeParameters) /\ Len(explicit) > 0 THEN explicit
        ELSE [i \in DOMAIN def.TypeParameters |->
                Let(resolvedTypeArg(def, def.TypeParameters[i].Name, node, c,
                                    Len(def.Parameters)),
                    LAMBDA r : IF r = Nil THEN Ident(s_any) ELSE r)])

\* the type arguments of the superclass: an argument that names a type
\* parameter of the class is replaced by the argument the class has for it,
\* any other is lowered
parentTypeArgs(superArgStrs, paramNames, currentArgs, scopeTypeParams) ==
    [k \in DOMAIN superArgStrs |->
        Let(TrimSpace(stripJavaQualifier(superArgStrs[k])), LAMBDA a :
        Let({i \in DOMAIN paramNames : paramNames[i] = a /\ i <= Len(currentArgs)},
            LAMBDA mapped :
                IF mapped # {}
                THEN currentArgs[CHOOSE i \in mapped : \A j \in mapped : i >= j]
                ELSE javaTypeStringToGoTypeExpr(a, scopeTypeParams \o paramNames)))]

\* [ok, args]: the class type arguments of child as seen by ancestor; ok is
\* FALSE for the nil result
RECURSIVE mapTypeArgsFrom(_, _, _, _, _)
mapTypeArgsFrom(currentScope, currentArgs, ancestor, seen, c) ==
    IF currentScope = Nil THEN [ok |-> FALSE, args |-> <<>>]
    ELSE IF currentScope = ancestor THEN [ok |-> TRUE, args |-> currentArgs]
    ELSE IF currentScope \in seen THEN [ok |-> FALSE, args |-> <<>>]
    ELSE Let(TrimSpace(currentScope.Superclass), LAMBDA superType :
    IF superType = <<>> THEN [ok |-> FALSE, args |-> <<>>]
    ELSE Let(parseJavaTypeString(superType), LAMBDA parsed :
    Let(resolveClassScopeByQualifiedName(c, parsed.base), LAMBDA parentScope :
    IF parentScope = Nil THEN [ok |-> FALSE, args |-> <<>>]
    ELSE Let2(ClassTypeParameterNames(currentScope), inScopeTypeParameters(c),
              LAMBDA paramNames, scopeTypeParams :
        mapTypeArgsFrom(parentScope,
            parentTypeArgs(parsed.args, paramNames, currentArgs, scopeTypeParams),
            ancestor, seen \cup {currentScope}, c)))))

mapClassTypeArgsToAncestor(child, childTypeArgs, ancestor, c) ==
    IF child = Nil \/ ancestor = Nil THEN [ok |-> FALSE, args |-> <<>>]
    ELSE mapTypeArgsFrom(child, childTypeArgs, ancestor, {}, c)

\* Nil when the invocation is not one of a helper-modelled method
maybeRewriteInstanceGenericMethodInvocationWithTarget(target, objectExpr, methodName, args, node, c) ==
    IF target = Nil THEN Nil
    ELSE Let(findInstanceMethodInHierarchy(target.classScope, methodName, Len(args), c),
             LAMBDA resolved :
        IF resolved = Nil THEN Nil
        ELSE IF ~resolved.def.RequiresHelper THEN Nil
        ELSE LET helperDef == resolved.def
                 ownerScope == resolved.owner
                 inherited == resolved.owner # target.classScope
             IN  Let(IF inherited
                     THEN mapClassTypeArgsToAncestor(target.classScope, target.classTypeArgs,
                                                     ownerScope, c)
                     ELSE [ok |-> FALSE, args |-> <<>>],
                     LAMBDA mapped :
                        CallExpr(
                            SelectorExpr(
                                CallExpr(
                                    applyTypeArguments(
                                        Ident(s_New \o helperDef.HelperName),
                                        (IF mapped.ok THEN mapped.args
                                         ELSE target.classTypeArgs)
                                          \o inferMethodTypeArguments(helperDef, node, c)),
                                    <<IF inherited
                                      THEN SelectorExpr(objectExpr, ownerScope.Class.Name)
                                      ELSE objectExpr>>),
                                helperDef.Name),
                            args)))

superSelectorExpr(c) ==
    IF c.currentClass = Nil THEN BadExpr
    ELSE Let(TrimSpace(c.currentClass.Superclass), LAMBDA superType :
    IF superType = <<>> THEN BadExpr
    ELSE Let(parseJavaTypeString(superType).base, LAMBDA base :
    IF base = <<>> THEN BadExpr
    ELSE Let(IF c.className = <<>> THEN c.currentClass.Class.Name ELSE c.className,
             LAMBDA recvName :
    IF recvName = <<>> THEN BadExpr
    ELSE Let(resolveClassScopeByQualifiedName(c, base), LAMBDA scope :
        SelectorExpr(Ident(ShortName(recvName)),
                     IF scope = Nil THEN stripJavaQualifier(base)
                     ELSE IF scope.Class.Name # <<>> THEN scope.Class.Name
                     ELSE stripJavaQualifier(base))))))

\* FileScope.FindField().ByOriginalName: the fields of that name in the first
\* top-level class and, depth first, in its nested classes
RECURSIVE findFieldsInClass(_, _)
RECURSIVE findFieldsInClasses(_, _)
findFieldsInClass(class, name) ==
    SelectSeq(class.Fields, LAMBDA d : d.OriginalName = name)
      \o findFieldsInClasses(class.Subclasses, name)

findFieldsInClasses(classes, name) ==
    IF classes = <<>> THEN <<>>
    ELSE findFieldsInClass(Head(classes), name) \o findFieldsInClasses(Tail(classes), name)

\* the enum-values shortcut: the enum named by the object of X.values(), looked
\* for in the first top-level class of the file and its directly nested classes
enumOfValuesCall(c, enumName) ==
    IF c.currentFile = Nil THEN Nil
    ELSE IF c.currentFile.BaseClass = Nil THEN Nil
    ELSE IF /\ c.currentFile.BaseClass.Class.OriginalName = enumName
            /\ c.currentFile.BaseClass.IsEnum
    THEN c.currentFile.BaseClass
    ELSE FirstWhere(c.currentFile.BaseClass.Subclasses,
                    LAMBDA cs : cs.Class.OriginalName = enumName /\ cs.IsEnum)

\* the argument type the constructor lookup uses for one argument node;
\* [ok, type] with ok FALSE when the lookup dereferences a missing scope
argumentType(node, c) ==
    IF node.kind # "identifier" THEN [ok |-> TRUE, type |-> TypeOfLiteral(node)]
    ELSE IF c.localScope = Nil THEN [ok |-> FALSE, type |-> NoStr]
    ELSE Let(FindVariable(c.localScope, node.name), LAMBDA local :
    IF local # Nil THEN [ok |-> TRUE, type |-> local.OriginalType]
    ELSE IF c.currentFile = Nil THEN [ok |-> FALSE, type |-> NoStr]
    ELSE IF c.currentFile.BaseClass = Nil THEN [ok |-> FALSE, type |-> NoStr]
    ELSE Let(findFieldsInClass(c.currentFile.BaseClass, node.name), LAMBDA defs :
        [ok |-> TRUE, type |-> IF Len(defs) > 0 THEN defs[1].OriginalType ELSE NoStr]))

\* a rule for the effective type arguments that reuses the type parameters
\* of the enclosing class for a diamond too
effectiveTypeArgs_DiamondReuse(typeArgs, isDiamond, className, c) ==
    IF Len(typeArgs) > 0 THEN typeArgs
    ELSE Let(IF isDiamond /\ c.expectedType # <<>>
             THEN extractTypeArgsFromString(c.expectedType)
             ELSE <<>>,
             LAMBDA inferred :
        IF Len(inferred) > 0 THEN inferred
        ELSE IF /\ Len(c.currentClass.TypeParameters) > 0
                /\ \E i \in DOMAIN c.currentClass.Subclasses :
                      c.currentClass.Subclasses[i].Class.OriginalName = className
        THEN ClassTypeParameterNames(c.currentClass)
        ELSE <<>>)

\* the effective type arguments of an object creation: the explicit ones,
\* else for a diamond those of the expected type, else for a creation that is
\* no diamond of a class nested in the generic current class the type
\* parameters of that class
effectiveTypeArgs(typeArgs, isDiamond, className, c) ==
    IF Len(typeArgs) > 0 THEN typeArgs
    ELSE Let(IF isDiamond /\ c.expectedType # <<>>
             THEN extractTypeArgsFromString(c.expectedType)
             ELSE <<>>,
             LAMBDA inferred :
        IF Len(inferred) > 0 THEN inferred
        ELSE IF /\ ~isDiamond
                /\ Len(c.currentClass.TypeParameters) > 0
                /\ \E i \in DOMAIN c.currentClass.Subclasses :
                      c.currentClass.Subclasses[i].Class.OriginalName = className
        THEN ClassTypeParameterNames(c.currentClass)
        ELSE <<>>)

Panics(exprs) == \E i \in DOMAIN exprs : exprs[i] = PanicExpr

s_nil == <<"n", "i", "l">>

RECURSIVE ParseExpr(_, _)
ParseExpr(node, c) ==
    CASE node.kind \in {"ERROR", "comment", "class_literal", "instanceof_expression"} ->
            BadExpr
      [] node.kind = "super" -> superSelectorExpr(c)
      [] node.kind = "this" -> Ident(ShortName(c.className))
      [] node.kind = "null_literal" -> Ident(s_nil)
      [] node.kind \in {"decimal_integer_literal", "string_literal"} -> Ident(node.name)
      [] node.kind = "identifier" ->
            Let(IF c.localScope # Nil THEN ParameterByName(c.localScope, node.name) ELSE Nil,
                LAMBDA param :
            IF param # Nil THEN Ident(param.Name)
            ELSE Let(IF c.localScope # Nil THEN FindVariable(c.localScope, node.name)
                     ELSE Nil,
                     LAMBDA local :
            IF local # Nil THEN Ident(local.Name)
            ELSE Let(IF c.currentClass # Nil
                     THEN findFieldInHierarchy(c.currentClass, node.name, c)
                     ELSE Nil,
                     LAMBDA field :
            IF field = Nil THEN Ident(node.name)
            ELSE IF (IF c.localScope # Nil THEN c.localScope.IsStatic ELSE FALSE)
            THEN Ident(field.Name)
            ELSE Let(IF c.className = <<>> THEN c.currentClass.Class.Name ELSE c.className,
                     LAMBDA recvName :
                IF recvName # <<>>
                THEN SelectorExpr(Ident(ShortName(recvName)), field.Name)
                ELSE Ident(node.name)))))
      [] node.kind = "field_access" ->
            Let(ParseExpr(node.object, c), LAMBDA objectExpr :
            IF objectExpr = PanicExpr THEN PanicExpr
            ELSE IF node.object.kind # "this" THEN SelectorExpr(objectExpr, node.name)
            ELSE Let(findFieldInHierarchy(c.currentClass, node.name, c), LAMBDA def :
                SelectorExpr(objectExpr,
                             IF def = Nil THEN node.name
                             ELSE IF def.Name # <<>> THEN def.Name
                             ELSE node.name)))
      [] node.kind = "method_invocation" /\ node.object # Nil ->
            Let(IF node.object.kind = "identifier" /\ node.name = s_values
                THEN enumOfValuesCall(c, node.object.name)
                ELSE Nil,
                LAMBDA enum :
            IF enum # Nil THEN CallExpr(Ident(enum.Class.Name \o s_Values), <<>>)
            ELSE Let2(ParseExpr(node.object, c),
                      [i \in DOMAIN node.args |-> ParseExpr(node.args[i], c)],
                      LAMBDA objectExpr, args :
            IF objectExpr = PanicExpr \/ Panics(args) THEN PanicExpr
            ELSE Let2(explicitTypeArgumentExprs(node, inScopeTypeParameters(c)),
                      findStaticMethodByNameAndArgCount(
                          resolveClassScopeByIdentifier(c, node.object), node.name, Len(args)),
                      LAMBDA typeArgs, staticDef :
            IF staticDef # Nil
            THEN CallExpr(applyTypeArguments(Ident(staticDef.Name), typeArgs), args)
            ELSE Let(resolveInvocationTarget(node.object, c), LAMBDA target :
            Let(maybeRewriteInstanceGenericMethodInvocationWithTarget(
                    target, objectExpr, node.name, args, node, c),
                LAMBDA rewritten :
            IF rewritten # Nil THEN rewritten
            ELSE IF target = Nil THEN CallExpr(SelectorExpr(objectExpr, node.name), args)
            ELSE Let(findInstanceMethodInHierarchy(target.classScope, node.name,
                                                   Len(args), c),
                     LAMBDA instance :
            IF instance # Nil
            THEN CallExpr(SelectorExpr(objectExpr, instance.def.Name), args)
            ELSE Let(findStaticMethodInHierarchy(target.classScope, node.name,
                                                 Len(args), c),
                     LAMBDA static :
                IF static # Nil
                THEN CallExpr(applyTypeArguments(Ident(static.def.Name), typeArgs), args)
                ELSE CallExpr(SelectorExpr(objectExpr, node.name), args))))))))
      [] node.kind = "method_invocation" /\ node.object = Nil ->
            Let2([i \in DOMAIN node.args |-> ParseExpr(node.args[i], c)],
                 /\ c.currentClass # Nil
                 /\ c.localScope # Nil
                 /\ c.localScope.OriginalName # <<>>
                 /\ ~c.localScope.IsStatic,
                 LAMBDA args, implicit :
            IF Panics(args) THEN PanicExpr
            ELSE Let(IF implicit
                     THEN maybeRewriteInstanceGenericMethodInvocationWithTarget(
                            TargetInfo(c.currentClass,
                                       typeParamExprs(ClassTypeParameterNames(c.currentClass))),
                            Ident(ShortName(c.className)), node.name, args, node, c)
                     ELSE Nil,
                     LAMBDA rewritten :
            IF rewritten # Nil THEN rewritten
            ELSE Let(IF implicit
                     THEN findInstanceMethodInHierarchy(c.currentClass, node.name,
                                                        Len(args), c)
                     ELSE Nil,
                     LAMBDA instance :
            IF instance # Nil
            THEN CallExpr(SelectorExpr(Ident(ShortName(c.className)), instance.def.Name),
                          args)
            ELSE Let2(explicitTypeArgumentExprs(node, inScopeTypeParameters(c)),
                      IF c.currentClass # Nil
                      THEN findStaticMethodInHierarchy(c.currentClass, node.name,
                                                       Len(args), c)
                      ELSE Nil,
                      LAMBDA typeArgs, static :
                CallExpr(applyTypeArguments(Ident(IF static # Nil THEN static.def.Name
                                                  ELSE node.name),
                                            typeArgs),
                         args)))))
      [] node.kind = "object_creation_expression" ->
            Let2([i \in DOMAIN node.args |-> ParseExpr(node.args[i], c)],
                 [i \in DOMAIN node.args |-> argumentType(node.args[i], c)],
                 LAMBDA arguments, argTypes :
            IF Panics(arguments) THEN PanicExpr
            ELSE IF \E i \in DOMAIN argTypes : ~argTypes[i].ok THEN PanicExpr
            ELSE Let2(TypeNodeKind(node.type) = "generic_type", ExtractTypeArguments(node.type),
                      LAMBDA generic, typeArgs :
            Let(IF generic THEN SubSeq(node.type, 1, IndexOf(node.type, "<") - 1)
                ELSE node.type,
                LAMBDA className :
            Let(/\ generic
                /\ Len(typeArgs) = 0
                /\ HasPrefix(TrimSpace(SubSeq(node.type, Len(className) + 1, Len(node.type))),
                             <<"<", ">">>),
                LAMBDA isDiamond :
            \* len(ctx.currentClass.TypeParameters) with no current class
            IF Len(typeArgs) = 0 /\ ~isDiamond /\ c.currentClass = Nil
            THEN PanicExpr
            ELSE Let2(Let(IF c.currentFile = Nil THEN Nil
                          ELSE findClassScopeByName(c.currentFile.BaseClass, className),
                          LAMBDA found :
                            findMatchingConstructor(
                                IF found # Nil THEN found ELSE c.currentClass,
                                className,
                                [i \in DOMAIN node.args |-> argTypes[i].type])),
                      effectiveTypeArgs(typeArgs, isDiamond, className, c),
                      LAMBDA constructor, effective :
                CallExpr(
                    applyTypeArguments(
                        Ident(IF constructor # Nil THEN constructor.Name
                              ELSE s_Construct \o className),
                        [i \in DOMAIN effective |->
                            javaTypeStringToGoTypeExpr(effective[i],
                                                       inScopeTypeParameters(c))]),
                    arguments))))))
      [] node.kind = "unary_expression" ->
            Let(ParseExpr(node.object, c), LAMBDA x :
                IF x = PanicExpr THEN PanicExpr ELSE UnaryExpr(node.name, x))
      [] node.kind = "parenthesized_expression" ->
            Let(ParseExpr(node.object, c), LAMBDA x :
                IF x = PanicExpr THEN PanicExpr ELSE ParenExpr(x))
      [] OTHER -> PanicExpr

----------------------------------------------------------------------------
(* Declaration lowering (declaration.go).  An emitted declaration is       *)
(*   [kind, name, recv, tparams, results, fields, body]                    *)
(* kind: "struct", "func", "var", "const", "interface"; recv: the base     *)
(* type of the receiver of a method, NoStr for a function; body: the form  *)
(* of the function body, with the case clauses of a dispatch switch and    *)
(* the lowered expression statements of a block.                           *)

s_Name == <<"N", "a", "m", "e">>
s_Ordinal == <<"O", "r", "d", "i", "n", "a", "l">>
s_CompareTo == <<"C", "o", "m", "p", "a", "r", "e", "T", "o">>
s_ValueOf == <<"V", "a", "l", "u", "e", "O", "f">>
s_ordinal == <<"_", "o", "r", "d", "i", "n", "a", "l", "_">>
s_recv == <<"r", "e", "c", "v">>
s_main == <<"m", "a", "i", "n">>
s_init == <<"i", "n", "i", "t">>


\* the annotations configured with -exclude-annotations
excludedAnnotations == {"@Skip"}

Body(form, clauses, dflt) ==
    [form |-> form, clauses |-> clauses, dflt |-> dflt, stmts |-> <<>>]
NoBody == Body("none", <<>>, NoStr)
Block(stmts) == [Body("block", <<>>, NoStr) EXCEPT !.stmts = stmts]

\* ParseStmt on the block of a method, constructor or initializer: each
\* expression statement lowered by ParseExpr under the context of the member
ParseStmt(node, c) ==
    IF node.hasBody THEN Block([i \in DOMAIN node.body |-> ParseExpr(node.body[i], c)])
    ELSE Block(<<>>)

Decl(kind, name, recv, tparams, results, fields, body) ==
    [kind |-> kind, name |-> name, recv |-> recv, tparams |-> tparams,
     results |-> results, fields |-> fields, body |-> body]

BadDecl == Decl("bad", NoStr, NoStr, <<>>, NoStr, <<>>, NoBody)

\* a lowering that panicked: the result holds this marker and nothing else
Panic == <<Decl("panic", NoStr, NoStr, <<>>, NoStr, <<>>, NoBody)>>

\* the original types of the parameters of a method node
NodeParamTypes(node) == [i \in DOMAIN node.params |-> node.params[i].type]

OriginalParameterTypes(d) == [i \in DOMAIN d.Parameters |-> d.Parameters[i].OriginalType]

\* the comparison of ParseDecl: same original name, same parameter types
declMatchesNode(d, node) ==
    /\ d.OriginalName = node.name
    /\ OriginalParameterTypes(d) = NodeParamTypes(node)

\* methodNodeMatchesDefinition
methodNodeMatchesDefinition(node, def) ==
    /\ node.name = def.OriginalName
    /\ NodeParamTypes(node) = OriginalParameterTypes(def)

\* the free function carrying one implementation of an enum method
buildEnumMethodImplementation(funcName, node, def, c) ==
    Decl("func", funcName, NoStr, <<>>, def.Type, <<>>,
         ParseStmt(node, [c EXCEPT !.localScope = def]))

\* the keys of the overrides map in the order a range loop visits them:
\* order lists the constant names in the order of this iteration
RECURSIVE MapRange(_, _)
MapRange(overrides, order) ==
    IF order = <<>> THEN <<>>
    ELSE IF Head(order) \in DOMAIN overrides
         THEN <<[const |-> Head(order), impl |-> overrides[Head(order)]]>>
              \o MapRange(overrides, Tail(order))
         ELSE MapRange(overrides, Tail(order))

\* the wrapper whose default branch panics whether or not the enum gives the
\* method a body
buildEnumMethodWrapper_PanicDefault(def, overrides, order, defaultImpl, className) ==
    Decl("func", def.Name, className, <<>>, def.Type, <<>>,
         Body("switch", MapRange(overrides, order), <<"panic">>))

\* buildEnumMethodWrapper: one method on the enum struct switching on recv.Name
buildEnumMethodWrapper(def, overrides, order, defaultImpl, className) ==
    Decl("func", def.Name, className, <<>>, def.Type, <<>>,
         Body("switch", MapRange(overrides, order),
              IF defaultImpl # NoStr THEN defaultImpl ELSE <<"panic">>))

\* genInstanceGenericHelperDecls: helper struct, its constructor, the method on the helper
genInstanceGenericHelperDecls(c, def, body) ==
    Let(TypeParamNames(MergeTypeParams(c.currentClass.TypeParameters, def.TypeParameters)),
        LAMBDA combinedTypeParamNames :
            << Decl("struct", def.HelperName, NoStr, combinedTypeParamNames, NoStr,
                    <<s_recv>>, NoBody),
               Decl("func", s_New \o def.HelperName, NoStr, combinedTypeParamNames,
                    <<"*">> \o def.HelperName, <<>>, Body("return", <<>>, NoStr)),
               Decl("func", def.Name, def.HelperName, <<>>, def.Type, <<>>, body) >>)

\* the implementations of def found in the bodies of the enum constants, in
\* declaration order of the constants: [const, impl] for the first matching method
RECURSIVE enumOverrides(_, _, _)
enumOverrides(constants, def, className) ==
    IF constants = <<>> THEN <<>>
    ELSE Let(IF Head(constants).HasBody
             THEN FirstWhere(Head(constants).Body,
                             LAMBDA n : methodNodeMatchesDefinition(n, def))
             ELSE Nil,
             LAMBDA implNode :
                (IF implNode # Nil
                 THEN <<[const |-> Head(constants).Name,
                         impl |-> s_us \o className \o s_us \o Head(constants).Name
                                    \o s_us \o def.Name,
                         node |-> implNode]>>
                 ELSE <<>>)
                \o enumOverrides(Tail(constants), def, className))

\* findEnumConstructor: the first constructor of the enum with that many parameters
findEnumConstructor(c, argumentCount) ==
    FirstWhere(c.currentClass.Methods,
               LAMBDA def : def.Constructor /\ Len(def.Parameters) = argumentCount)

\* buildEnumConstantInitializer: the value a constant is initialised with, a
\* call of the constructor found or else &Enum{}, before Name and Ordinal are set
buildEnumConstantInitializer(enumConst, c) ==
    Let2([i \in DOMAIN enumConst.Arguments |-> ParseExpr(enumConst.Arguments[i], c)],
         findEnumConstructor(c, Len(enumConst.Arguments)),
         LAMBDA args, ctor :
            IF Panics(args) THEN PanicExpr
            ELSE IF ctor # Nil THEN CallExpr(Ident(ctor.Name), args)
            ELSE CompositeLit(Ident(c.className)))

\* a panic raised while the body of one of the declarations was lowered
BodyPanics(decls) == \E i \in DOMAIN decls : Panics(decls[i].body.stmts)

\* the context ParseDecl lowers the body of a member under: localScope is the
\* first Definition of the class matching the node by name and parameter
\* types (Nil when there is none), an empty Definition for a static initializer
MemberCtx(c, node) ==
    IF node.kind = "static_initializer" THEN [c EXCEPT !.localScope = EmptyDef]
    ELSE [c EXCEPT !.localScope =
            FirstWhere(c.currentClass.Methods, LAMBDA d : declMatchesNode(d, node))]

\* the struct type without its type arguments (a constructor returning the
\* raw type)
instantiateGenericType_Raw(name, args) == name

\* instantiateGenericType over typeParamExprs, as printed: C or C[T, U]
instantiateGenericType(name, args) ==
    IF Len(args) = 0 THEN name
    ELSE name \o <<"[">> \o JoinComma(args) \o <<"]">>

\* ParseDecl: the declarations of one constructor, method or static initializer,
\* or Panic.  order is the iteration order of the overrides map.
ParseDecl(node, c0, order) ==
    Let(MemberCtx(c0, node), LAMBDA c :
    Let(ParseStmt(node, c), LAMBDA body :
    Let(CASE node.kind = "constructor_declaration" ->
                IF c.localScope = Nil THEN Panic
                ELSE << Decl("func", c.localScope.Name, NoStr,
                             TypeParamNames(MergeTypeParams(c.currentClass.TypeParameters,
                                                            c.localScope.TypeParameters)),
                             <<"*">> \o instantiateGenericType(c.className,
                                         ClassTypeParameterNames(c.currentClass)),
                             <<>>, body) >>
          [] node.kind \in {"method_declaration", "abstract_method_declaration"} ->
                IF node.annots \cap excludedAnnotations # {} THEN <<BadDecl>>
                ELSE IF c.localScope = Nil THEN Panic
                ELSE IF c.currentClass.IsEnum /\ "static" \notin node.mods THEN
                    Let2(IF node.hasBody
                         THEN s_us \o c.className \o s_us \o c.localScope.Name
                              \o s_us \o s_default
                         ELSE NoStr,
                         enumOverrides(c.currentClass.EnumConstants, c.localScope,
                                       c.className),
                         LAMBDA defaultImpl, found :
                    Let((IF node.hasBody THEN <<[impl |-> defaultImpl, node |-> node]>>
                         ELSE <<>>) \o found,
                        LAMBDA impls :
                            [i \in DOMAIN impls |->
                                buildEnumMethodImplementation(impls[i].impl, impls[i].node,
                                                              c.localScope, c)]
                            \o <<buildEnumMethodWrapper(
                                    c.localScope,
                                    [k \in {found[i].const : i \in DOMAIN found} |->
                                        (CHOOSE e \in SeqRange(found) : e.const = k).impl],
                                    order, defaultImpl, c.className)>>))
                ELSE IF ~node.hasBody THEN <<>>
                ELSE IF c.localScope.RequiresHelper
                     THEN genInstanceGenericHelperDecls(c, c.localScope, body)
                ELSE << Decl("func", c.localScope.Name,
                             IF "static" \in node.mods THEN NoStr ELSE c.className,
                             IF "static" \in node.mods
                             THEN TypeParamNames(c.localScope.TypeParameters) ELSE <<>>,
                             c.localScope.Type, <<>>, body) >>
          [] node.kind = "static_initializer" ->
                << Decl("func", s_init, NoStr, <<>>, NoStr, <<>>, body) >>
          [] OTHER -> Panic,
        LAMBDA decls : IF BodyPanics(decls) THEN Panic ELSE decls)))

\* concatenation of two lowering results, a panic in either aborting both
Cat(a, b) == IF a = Panic \/ b = Panic THEN Panic ELSE a \o b

RECURSIVE DropBad(_)
DropBad(decls) ==
    IF decls = <<>> THEN <<>>
    ELSE IF Head(decls).kind = "bad" THEN DropBad(Tail(decls))
    ELSE <<Head(decls)>> \o DropBad(Tail(decls))

\* the struct fields and package variables of the field declarations of a class body
RECURSIVE classFields(_, _, _)
classFields(nodes, cs, wantStatic) ==
    IF nodes = <<>> THEN <<>>
    ELSE IF /\ Head(nodes).kind = "field_declaration"
            /\ ("static" \in Head(nodes).mods) = wantStatic
    THEN <<FindFieldByName(cs, Head(nodes).name).Name>>
         \o classFields(Tail(nodes), cs, wantStatic)
    ELSE classFields(Tail(nodes), cs, wantStatic)

\* the cases of the constants but the last
valueOfCases_DropLast(constNames) ==
    [i \in 1..(Len(constNames) - 1) |-> [const |-> constNames[i], impl |-> constNames[i]]]

\* the cases of <Enum>ValueOf: the literal name of each constant, returning
\* the constant
valueOfCases(constNames) ==
    [i \in DOMAIN constNames |-> [const |-> constNames[i], impl |-> constNames[i]]]

RECURSIVE ParseDecls(_, _, _)
RECURSIVE ParseBody(_, _, _, _, _, _)

\* ParseDecls on a class_body or enum_body: the members in source order
ParseBody(nodes, i, subclassIndex, c, orders, inEnum) ==
    IF i > Len(nodes) THEN <<>>
    ELSE CASE nodes[i].kind \in {"constructor_declaration", "method_declaration",
                                 "abstract_method_declaration", "static_initializer"} ->
                Let(ParseDecl(nodes[i], c, orders[i]), LAMBDA ds :
                    Cat(IF ds = Panic THEN Panic ELSE DropBad(ds),
                        ParseBody(nodes, i + 1, subclassIndex, c, orders, inEnum)))
           [] nodes[i].kind \in {"class_declaration", "interface_declaration",
                                 "enum_declaration"} /\ ~inEnum ->
                Cat(ParseDecls(nodes[i],
                               [c EXCEPT !.currentClass =
                                    c.currentClass.Subclasses[subclassIndex]],
                               orders),
                    ParseBody(nodes, i + 1, subclassIndex + 1, c, orders, inEnum))
           [] OTHER -> ParseBody(nodes, i + 1, subclassIndex, c, orders, inEnum)

\* ParseDecls: the declarations of a class, interface or enum declaration, or Panic
ParseDecls(node, c0, orders) ==
    CASE node.kind = "class_declaration" ->
            Let(FileFindClassScope(c0.currentFile, node.name).Class.Name, LAMBDA className :
            Let2(ClassTypeParameterNames(c0.currentClass),
                 classFields(node.members, c0.currentClass, TRUE),
                 LAMBDA typeParams, globals :
                Cat((IF globals # <<>>
                     THEN <<Decl("var", NoStr, NoStr, <<>>, NoStr, globals, NoBody)>>
                     ELSE <<>>)
                    \o <<Decl("struct", className, NoStr, typeParams, NoStr,
                              (IF node.superclass # NoStr
                               THEN <<ParseTypeWithTypeParams(node.superclass, typeParams)>>
                               ELSE <<>>)
                              \o [i \in DOMAIN node.interfaces |-> node.interfaces[i]]
                              \o classFields(node.members, c0.currentClass, FALSE),
                              NoBody)>>,
                    ParseBody(node.members, 1, 1, [c0 EXCEPT !.className = className],
                              orders, FALSE))))
      [] node.kind = "interface_declaration" ->
            << Decl("interface", c0.currentClass.Class.Name, NoStr,
                    ClassTypeParameterNames(c0.currentClass), NoStr,
                    [i \in DOMAIN node.interfaces |-> node.interfaces[i]]
                    \o [i \in DOMAIN c0.currentClass.Methods |->
                           c0.currentClass.Methods[i].Name],
                    NoBody) >>
      [] node.kind = "enum_declaration" ->
            Let2(c0.currentClass.Class.Name, c0.currentClass, LAMBDA className, cs :
            Let2([i \in DOMAIN cs.EnumConstants |-> cs.EnumConstants[i].Name],
                 s_us \o Lowercase(className) \o s_Values,
                 LAMBDA constNames, valuesVarName :
                Cat(<<Decl("struct", className, NoStr, ClassTypeParameterNames(cs), NoStr,
                           <<s_Name, s_Ordinal>>
                           \o [i \in DOMAIN node.interfaces |-> node.interfaces[i]]
                           \o [i \in DOMAIN cs.Fields |-> cs.Fields[i].Name],
                           NoBody)>>
                    \o (IF Len(constNames) = 0 THEN <<>>
                        ELSE << Decl("const", NoStr, NoStr, <<>>, NoStr,
                                     [i \in DOMAIN constNames |->
                                         s_us \o Lowercase(className) \o s_ordinal
                                           \o constNames[i]],
                                     NoBody),
                                Decl("var", NoStr, NoStr, <<>>, NoStr, constNames, NoBody),
                                Decl("var", valuesVarName, NoStr, <<>>, NoStr, constNames,
                                     NoBody),
                                Decl("func", className \o s_Values, NoStr, <<>>,
                                     <<"[", "]", "*">> \o className, <<>>,
                                     Body("return", <<>>, valuesVarName)),
                                Decl("func", className \o s_ValueOf, NoStr, <<>>,
                                     <<"*">> \o className, <<>>,
                                     Body("switch", valueOfCases(constNames),
                                          <<"panic">>)),
                                Decl("func", HandleExportStatus(TRUE, <<"n", "a", "m", "e">>),
                                     className, <<>>, s_string, <<>>,
                                     Body("return", <<>>, s_Name)),
                                Decl("func",
                                     HandleExportStatus(TRUE,
                                         <<"o", "r", "d", "i", "n", "a", "l">>),
                                     className, <<>>, s_int, <<>>,
                                     Body("return", <<>>, s_Ordinal)),
                                Decl("func",
                                     HandleExportStatus(TRUE,
                                         <<"c", "o", "m", "p", "a", "r", "e", "T", "o">>),
                                     className, <<>>, s_int, <<>>,
                                     Body("return", <<>>, s_Ordinal)) >>),
                    ParseBody(node.members, 1, 1, [c0 EXCEPT !.className = className],
                              orders, TRUE))))
      [] OTHER -> Panic

\* the Ctx the lowering of a file starts from
FileCtx(fs) ==
    [currentFile |-> fs, currentClass |-> fs.BaseClass, className |-> NoStr,
     localScope |-> Nil, expectedType |-> NoStr]

\* the lowering of a whole file: its top-level declarations in source order
RECURSIVE ParseProgram(_, _, _, _)
ParseProgram(file, fs, i, orders) ==
    IF i > Len(file.classes) THEN <<>>
    ELSE Cat(ParseDecls(file.classes[i],
                        [FileCtx(fs) EXCEPT !.currentClass = fs.TopLevelClasses[i]],
                        orders),
             ParseProgram(file, fs, i + 1, orders))

----------------------------------------------------------------------------
(* Construction of concrete-syntax trees *)

Param(name, type) == [name |-> name, type |-> type]
TParam(name) == [name |-> name, bounds |-> <<>>]

MethodNode(name, mods, tparams, params, type, hasBody, body) ==
    [kind |-> "method_declaration", name |-> name, mods |-> mods, annots |-> {},
     tparams |-> tparams, params |-> params, type |-> type, hasBody |-> hasBody,
     nscopes |-> 0, body |-> body]

ConstructorNode(name, mods, params, body) ==
    [kind |-> "constructor_declaration", name |-> name, mods |-> mods, annots |-> {},
     tparams |-> <<>>, params |-> params, type |-> NoStr, hasBody |-> TRUE,
     nscopes |-> 0, body |-> body]

\* a bodyless method under the node kind of older grammars, which
\* parseClassMember has no case for
AbstractMethodNode(name, mods, params, type) ==
    [kind |-> "abstract_method_declaration", name |-> name, mods |-> mods, annots |-> {},
     tparams |-> <<>>, params |-> params, type |-> type, hasBody |-> FALSE,
     nscopes |-> 0, body |-> <<>>]

StaticInitializerNode(body) ==
    [kind |-> "static_initializer", name |-> NoStr, mods |-> {"static"}, annots |-> {},
     tparams |-> <<>>, params |-> <<>>, type |-> NoStr, hasBody |-> TRUE,
     nscopes |-> 0, body |-> body]

FieldNode(name, mods, type) ==
    [kind |-> "field_declaration", name |-> name, mods |-> mods, annots |-> {},
     type |-> type]

ClassNode(kind, name, mods, tparams, superclass, constants, members) ==
    [kind |-> kind, name |-> name, mods |-> mods, tparams |-> tparams,
     superclass |-> superclass, interfaces |-> <<>>, constants |-> constants,
     members |-> members]

FileNode(name, package, imports, classes) ==
    [name |-> name, package |-> package, imports |-> imports, classes |-> classes]

Identifier(name) == Node("identifier", name, Nil, <<>>, <<>>, NoStr)
This == Node("this", NoStr, Nil, <<>>, <<>>, NoStr)
Super == Node("super", NoStr, Nil, <<>>, <<>>, NoStr)
IntLiteral == Node("decimal_integer_literal", <<"1">>, Nil, <<>>, <<>>, NoStr)
StringLiteral == Node("string_literal", <<"\"", "\"">>, Nil, <<>>, <<>>, NoStr)
Invocation(object, name, args) == Node("method_invocation", name, object, args, <<>>, NoStr)
Creation(type, args) == Node("object_creation_expression", NoStr, Nil, args, <<>>, type)
FieldAccess(object, name) == Node("field_access", name, object, <<>>, <<>>, NoStr)
ClassLiteral == Node("class_literal", NoStr, Nil, <<>>, <<>>, s_A)
InstanceOf(x) == Node("instanceof_expression", NoStr, x, <<>>, <<>>, s_A)
Unary(op, x) == Node("unary_expression", op, x, <<>>, <<>>, NoStr)
Parenthesized(x) == Node("parenthesized_expression", NoStr, x, <<>>, <<>>, NoStr)
\* an expression kind ParseExpr has no case for
SwitchExpression == Node("switch_expression", NoStr, Nil, <<>>, <<>>, NoStr)

----------------------------------------------------------------------------
(* The package registry and the phases of the driver *)

Files == 1..NumFiles
Packages == {s_p, s_q}

NoScope == [none |-> TRUE]
NoOut == <<Decl("none", NoStr, NoStr, <<>>, NoStr, <<>>, NoBody)>>

EmptyRegistry == [pkg \in Packages |-> {}]

\* symbol.AddSymbolsToPackage: the file joins the files of its package
AddSymbolsToPackage(registry, f, fs) ==
    [registry EXCEPT ![fs.Package] = @ \cup {f}]

\* the registry with every file of the program registered
RECURSIVE RegisterAll(_, _, _)
RegisterAll(registry, symbols, f) ==
    IF f > NumFiles THEN registry
    ELSE RegisterAll(AddSymbolsToPackage(registry, f, symbols[f]), symbols, f + 1)

----------------------------------------------------------------------------
(* Lowering of single expressions inside the members of a class.           *)
(* File 1 holds class A, file 2 class B; A may extend B, B may live in     *)
(* another package and may be imported.  No file declares class Z.         *)

ExprClassA(ext) ==
    ClassNode("class_declaration", s_A, {"public"}, <<>>, IF ext THEN s_B ELSE NoStr, <<>>,
        << FieldNode(s_f, {"public"}, s_int),
           FieldNode(s_b, {}, s_B),
           MethodNode(s_m, {"public"}, <<>>, <<Param(s_x, s_int)>>, s_void, TRUE, <<>>),
           MethodNode(s_n, {"public", "static"}, <<>>, <<>>, s_void, TRUE, <<>>),
           MethodNode(s_g, {"public"}, <<TParam(s_T)>>, <<Param(s_f, s_T)>>, s_void, TRUE, <<>>),
           ConstructorNode(s_A, {"public"}, <<Param(s_x, s_int)>>, <<>>),
           StaticInitializerNode(<<>>),
           ClassNode("class_declaration", s_L, {}, <<>>, NoStr, <<>>,
               << ConstructorNode(s_L, {"public"}, <<>>, <<>>) >>) >>)

ExprClassB ==
    ClassNode("class_declaration", s_B, {"public"}, <<>>, NoStr, <<>>,
        << FieldNode(s_h, {"public"}, s_int),
           MethodNode(s_o, {"public"}, <<>>, <<>>, s_void, TRUE, <<>>),
           MethodNode(s_k, {"public", "static"}, <<>>, <<>>, s_void, TRUE, <<>>),
           MethodNode(s_l, {"public"}, <<TParam(s_T)>>, <<Param(s_x, s_T)>>, s_void, TRUE, <<>>),
           MethodNode(s_m, {"public"}, <<>>, <<Param(s_x, s_int)>>, s_void, TRUE, <<>>),
           ConstructorNode(s_B, {"public"}, <<>>, <<>>),
           ConstructorNode(s_B, {"public"}, <<Param(s_x, s_int)>>, <<>>) >>)

\* a further file of the package of A, declaring an empty class K
ExprClassK == ClassNode("class_declaration", s_K, {}, <<>>, NoStr, <<>>, <<>>)

ExprPrograms ==
    { [f \in Files |->
          IF f = 1 THEN FileNode(s_A, s_p, IF imp THEN (s_B :> s_q) ELSE <<>>,
                                 <<ExprClassA(ext)>>)
          ELSE IF f = 2 THEN FileNode(s_B, pkgB, <<>>, <<ExprClassB>>)
          ELSE FileNode(s_K, s_p, <<>>, <<ExprClassK>>)]
      : ext \in BOOLEAN, imp \in BOOLEAN, pkgB \in Packages }

\* the context ParseDecls lowers the members of a class under
ClassCtx(fs, cs) == Ctx(fs, cs, cs.Class.Name, Nil, NoStr)

\* the contexts of the members of class A, before and after the declaration
\* of a local variable y (of type B) or f (of type int)
ExprContexts ==
    LET cs == Symbols[1].BaseClass
        members == src[1].classes[1].members
        base == { MemberCtx(ClassCtx(Symbols[1], cs), members[i]) :
                    i \in {j \in DOMAIN members :
                              members[j].kind \in {"method_declaration",
                                                   "constructor_declaration",
                                                   "static_initializer"}} }
    IN  base
        \cup { [c EXCEPT !.localScope = DeclareLocal(@, s_y, s_B)] : c \in base }
        \cup { [c EXCEPT !.localScope = DeclareLocal(@, s_f, s_int)] : c \in base }

ExprNames == {s_x, s_y, s_f, s_h, s_b, s_z}
MethodNames == {s_m, s_n, s_g, s_o, s_k, s_l, s_z}
ArgLists == {<<>>, <<IntLiteral>>, <<Identifier(s_x)>>}
Objects ==
    {This, Super, Identifier(s_A), Identifier(s_B), Identifier(s_Z), Identifier(s_b),
     Identifier(s_y), Creation(s_B, <<>>)}
CreatedTypes == {s_A, s_B, s_L, s_Z}

ExprQueries ==
    {Identifier(name) : name \in ExprNames}
    \cup {Invocation(Nil, name, args) : name \in MethodNames, args \in ArgLists}
    \cup {Invocation(object, name, args) :
            object \in Objects, name \in MethodNames, args \in ArgLists}
    \cup {Creation(type, args) :
            type \in CreatedTypes, args \in ArgLists \cup {<<StringLiteral>>}}

InitExpr ==
    /\ src \in ExprPrograms
    /\ Symbols = [f \in Files |-> ParseSymbols(src[f])]
    /\ GlobalScope = RegisterAll(EmptyRegistry, Symbols, 1)
    /\ pc = [f \in Files |-> "lowering"]
    /\ out = [f \in Files |-> NoOut]
    /\ rerun = NoOut
    /\ reported = {}
    /\ ctx \in ExprContexts
    /\ query \in ExprQueries
    /\ result = Nil

\* ParseExpr on the expression at hand
Lower(kind, qualified) ==
    /\ result = Nil
    /\ query.kind = kind
    /\ (query.object # Nil) = qualified
    /\ result' = ParseExpr(query, ctx)
    /\ UNCHANGED <<src, pc, Symbols, GlobalScope, out, rerun, reported, ctx, query>>

LowerIdentifier == Lower("identifier", FALSE)
LowerUnqualifiedInvocation == Lower("method_invocation", FALSE)
LowerQualifiedInvocation == Lower("method_invocation", TRUE)
LowerObjectCreation == Lower("object_creation_expression", FALSE)

NextExpr ==
    \/ LowerIdentifier
    \/ LowerUnqualifiedInvocation
    \/ LowerQualifiedInvocation
    \/ LowerObjectCreation

SpecExpr == InitExpr /\ [][NextExpr]_vars

----------------------------------------------------------------------------
(* Symbol parsing and declaration lowering of one class or enum.           *)
(* File 1 declares a class or an enum A whose members are drawn from a     *)
(* pool of methods and constructors; the other files declare empty classes.*)

\* the methods m of the pool: static or not, generic or not, with no or one
\* parameter, abstract or not (a static method has a body)
PoolMethod(static, generic, arity, hasBody) ==
    MethodNode(s_m, {"public"} \cup (IF static THEN {"static"} ELSE {}),
               IF generic THEN <<TParam(s_T)>> ELSE <<>>,
               IF arity = 0 THEN <<>>
               ELSE <<Param(s_x, IF generic THEN s_T ELSE s_int)>>,
               s_void, hasBody, <<>>)

PoolMethods ==
    { PoolMethod(t[1], t[2], t[3], t[4]) :
        t \in { u \in BOOLEAN \X BOOLEAN \X {0, 1} \X BOOLEAN : u[1] => u[4] } }

PoolConstructors ==
    { [ConstructorNode(s_A, {"public"},
                       IF generic THEN <<Param(s_x, s_T)>> ELSE <<>>, <<>>)
         EXCEPT !.tparams = IF generic THEN <<TParam(s_T)>> ELSE <<>>]
      : generic \in BOOLEAN }

MemberPool ==
    PoolMethods \cup PoolConstructors
    \cup {MethodNode(s_n, {}, <<>>, <<>>, s_int, TRUE, <<>>)}

\* no two members of a class have the same name and parameter types
DistinctSignatures(members) ==
    \A i, j \in DOMAIN members :
        i # j => ~(/\ members[i].name = members[j].name
                   /\ NodeParamTypes(members[i]) = NodeParamTypes(members[j]))

MemberLists == {ms \in SeqsUpTo(MemberPool, MaxMembers) : DistinctSignatures(ms)}

\* the name of the i-th enum constant: K, L, M, ...
ConstantName(i) == <<UpperLetters[10 + i]>>

\* the method a constant body overrides
OverrideOfM == MethodNode(s_m, {"public"}, <<>>, <<>>, s_void, TRUE, <<>>)

\* the constants of an enum: for each, whether it has a body overriding m()
ConstantLists ==
    UNION { { [i \in 1..n |->
                 [name |-> ConstantName(i), args |-> <<>>, hasBody |-> bodies[i],
                  methods |-> IF bodies[i] THEN <<OverrideOfM>> ELSE <<>>]]
              : bodies \in [1..n -> BOOLEAN] }
            : n \in 0..MaxConstants }

\* file f > 1: an empty class named after the file
FillerFile(f) ==
    FileNode(ConstantName(f), s_p, <<>>,
             <<ClassNode("class_declaration", ConstantName(f), {}, <<>>, NoStr, <<>>, <<>>)>>)

DeclPrograms ==
    { [f \in Files |->
          IF f = 1 THEN FileNode(s_A, s_p, <<>>, <<class>>) ELSE FillerFile(f)]
      : class \in
          { ClassNode("class_declaration", s_A, {"public"}, <<>>, NoStr, <<>>, ms)
            : ms \in MemberLists }
          \cup
          { ClassNode("enum_declaration", s_A, {"public"}, <<>>, NoStr, ks, ms)
            : ks \in ConstantLists, ms \in MemberLists } }

\* the orders a range loop over a map keyed by the names may visit them in
RECURSIVE Orderings(_)
Orderings(names) ==
    IF names = {} THEN {<<>>}
    ELSE UNION { {<<n>> \o rest : rest \in Orderings(names \ {n})} : n \in names }

\* the keys of the overrides map ParseDecl builds for member i of the class:
\* the constants whose body declares a method of the name and parameter
\* types of the member, for an instance method of an enum; no key otherwise
OverrideKeys(class, i) ==
    IF /\ class.kind = "enum_declaration"
       /\ class.members[i].kind \in {"method_declaration", "abstract_method_declaration"}
       /\ "static" \notin class.members[i].mods
    THEN { class.constants[k].name :
             k \in { j \in DOMAIN class.constants :
                       /\ class.constants[j].hasBody
                       /\ \E n \in DOMAIN class.constants[j].methods :
                             /\ class.constants[j].methods[n].name = class.members[i].name
                             /\ NodeParamTypes(class.constants[j].methods[n])
                                  = NodeParamTypes(class.members[i]) } }
    ELSE {}

\* for the members from the i-th on, an iteration order of the map of each
RECURSIVE OrdersFrom(_, _)
OrdersFrom(class, i) ==
    IF i > Len(class.members) THEN {<<>>}
    ELSE { <<order>> \o rest : order \in Orderings(OverrideKeys(class, i)),
                               rest \in OrdersFrom(class, i + 1) }

\* for every member of the first class of the file, the order in which the
\* range loop over its overrides map visits the keys
IterationOrders(file) == OrdersFrom(file.classes[1], 1)

InitDecl ==
    /\ src \in DeclPrograms
    /\ Symbols = [f \in Files |-> NoScope]
    /\ GlobalScope = EmptyRegistry
    /\ pc = [f \in Files |-> "parsed"]
    /\ out = [f \in Files |-> NoOut]
    /\ rerun = NoOut
    /\ reported = {}
    /\ ctx = Nil
    /\ query = Nil
    /\ result = Nil

\* ParseSymbols and AddSymbolsToPackage, file after file
BuildSymbols(f) ==
    /\ pc[f] = "parsed"
    /\ \A g \in Files : g < f => pc[g] # "parsed"
    /\ \E fs \in {ParseSymbols(src[f])} :
          /\ Symbols' = [Symbols EXCEPT ![f] = fs]
          /\ GlobalScope' = AddSymbolsToPackage(GlobalScope, f, fs)
    /\ pc' = [pc EXCEPT ![f] = "symbols"]
    /\ UNCHANGED <<src, out, rerun, reported, ctx, query, result>>

\* the lowering of file 1, each range loop over a map taking some order
Translate ==
    /\ \A g \in Files : pc[g] = "symbols"
    /\ \E orders \in IterationOrders(src[1]) :
          out' = [out EXCEPT ![1] = ParseProgram(src[1], Symbols[1], 1, orders)]
    /\ pc' = [pc EXCEPT ![1] = "done"]
    /\ UNCHANGED <<src, Symbols, GlobalScope, rerun, reported, ctx, query, result>>

\* a second translation of the same file 1
TranslateAgain ==
    /\ pc[1] = "done"
    /\ rerun = NoOut
    /\ \E orders \in IterationOrders(src[1]) :
          rerun' = ParseProgram(src[1], Symbols[1], 1, orders)
    /\ UNCHANGED <<src, pc, Symbols, GlobalScope, out, reported, ctx, query, result>>

NextDecl ==
    \/ \E f \in Files : BuildSymbols(f)
    \/ Translate
    \/ TranslateAgain

SpecDecl == InitDecl /\ [][NextDecl]_vars

----------------------------------------------------------------------------
(* The driver: every file goes through symbol parsing and registration,    *)
(* resolution and lowering; the files advance in any interleaving, with a  *)
(* barrier between the phases.                                             *)

s_go == <<"g", "o">>

\* the keywords of Go
GoKeywords ==
    { <<"b", "r", "e", "a", "k">>, <<"d", "e", "f", "a", "u", "l", "t">>, <<"f", "u", "n", "c">>,
      <<"i", "n", "t", "e", "r", "f", "a", "c", "e">>, <<"s", "e", "l", "e", "c", "t">>, <<"c", "a", "s", "e">>,
      <<"d", "e", "f", "e", "r">>, <<"g", "o">>, <<"m", "a", "p">>,
      <<"s", "t", "r", "u", "c", "t">>, <<"c", "h", "a", "n">>, <<"e", "l", "s", "e">>,
      <<"g", "o", "t", "o">>, <<"p", "a", "c", "k", "a", "g", "e">>, <<"s", "w", "i", "t", "c", "h">>,
      <<"c", "o", "n", "s", "t">>, <<"f", "a", "l", "l", "t", "h", "r", "o", "u", "g", "h">>, <<"i", "f">>,
      <<"r", "a", "n", "g", "e">>, <<"t", "y", "p", "e">>, <<"c", "o", "n", "t", "i", "n", "u", "e">>,
      <<"f", "o", "r">>, <<"i", "m", "p", "o", "r", "t">>, <<"r", "e", "t", "u", "r", "n">>,
      <<"v", "a", "r">> }

\* the name a member keeps after resolution: a name colliding with a keyword
\* gets a suffix
ResolveName(name) == IF name \in GoKeywords THEN name \o <<"0">> ELSE name

RECURSIVE ResolveClass(_)
ResolveClass(cs) ==
    [cs EXCEPT !.Fields = [i \in DOMAIN @ |-> [@[i] EXCEPT !.Name = ResolveName(@)]],
               !.Methods = [i \in DOMAIN @ |-> [@[i] EXCEPT !.Name = ResolveName(@)]],
               !.Subclasses = [i \in DOMAIN @ |-> ResolveClass(@[i])]]

\* the FileScope of a file after its resolution
ResolveFileScope(fs) ==
    [fs EXCEPT !.TopLevelClasses = [i \in DOMAIN @ |-> ResolveClass(@[i])],
               !.BaseClass = IF @ = Nil THEN Nil ELSE ResolveClass(@)]

\* a resolution that rewrites the FileScope of every file
ResolveFile_EveryFile(symbols, f) ==
    [g \in DOMAIN symbols |->
        IF symbols[g] = NoScope THEN NoScope ELSE ResolveFileScope(symbols[g])]

\* ResolveFile: the resolution of file f rewrites the FileScope of f
ResolveFile(symbols, f) == [symbols EXCEPT ![f] = ResolveFileScope(symbols[f])]

\* no barrier: a file enters its next phase whatever the other files are at
PhaseComplete_NoBarrier(phase) == TRUE

\* the barrier between two phases: no file is still in the earlier phase
PhaseComplete(phase) == \A g \in Files : pc[g] # phase

\* a failure that ends the run: every file still under way fails with f
SkipFailed_AbortRun(pcs, f) ==
    [g \in DOMAIN pcs |-> IF pcs[g] = "done" THEN "done" ELSE "failed"]

\* the outcome of a structural failure in file f: f is skipped, its name reported
SkipFailed(pcs, f) == [pcs EXCEPT ![f] = "failed"]

\* the statements of a method body: none, a call of the inherited o(), or a
\* call whose argument is an expression ParseExpr has no case for
DriverBody(variant) ==
    CASE variant = "calls" -> <<Invocation(Nil, s_o, <<>>)>>
      [] variant = "badExpr" -> <<Invocation(Nil, s_o, <<SwitchExpression>>)>>
      [] OTHER -> <<>>

\* the class of file f: A extends B in file 1, B in file 2, then K, L, ...
\* Every class has a public method (m() in A, o() in the others) and a
\* package-private method go();
\* the variant "badDecl" adds a method node without a Definition.
DriverClass(f, variant) ==
    ClassNode("class_declaration",
              IF f = 1 THEN s_A ELSE IF f = 2 THEN s_B ELSE ConstantName(f - 2),
              {"public"}, <<>>, IF f = 1 THEN s_B ELSE NoStr, <<>>,
              << MethodNode(IF f = 1 THEN s_m ELSE s_o, {"public"}, <<>>, <<>>, s_void,
                            TRUE, DriverBody(variant)),
                 MethodNode(s_go, {}, <<>>, <<>>, s_void, TRUE, <<>>) >>
              \o (IF variant = "badDecl"
                  THEN <<AbstractMethodNode(s_n, {"public"}, <<>>, s_void)>>
                  ELSE <<>>))

Variants == {"plain", "calls", "badExpr", "badDecl"}

DriverFile(f, variant) ==
    FileNode(DriverClass(f, variant).name, s_p, <<>>, <<DriverClass(f, variant)>>)

DriverPrograms ==
    { [f \in Files |-> DriverFile(f, variants[f])] : variants \in [Files -> Variants] }

Init ==
    /\ src \in DriverPrograms
    /\ Symbols = [f \in Files |-> NoScope]
    /\ GlobalScope = EmptyRegistry
    /\ pc = [f \in Files |-> "parsed"]
    /\ out = [f \in Files |-> NoOut]
    /\ rerun = NoOut
    /\ reported = {}
    /\ ctx = Nil
    /\ query = Nil
    /\ result = Nil

\* ParseSymbols and AddSymbolsToPackage on file f
RegisterSymbols(f) ==
    /\ pc[f] = "parsed"
    /\ \E fs \in {ParseSymbols(src[f])} :
          /\ Symbols' = [Symbols EXCEPT ![f] = fs]
          /\ GlobalScope' = AddSymbolsToPackage(GlobalScope, f, fs)
    /\ pc' = [pc EXCEPT ![f] = "symbols"]
    /\ UNCHANGED <<src, out, rerun, reported, ctx, query, result>>

\* ResolveFile on file f, once every file is registered
Resolve(f) ==
    /\ pc[f] = "symbols"
    /\ PhaseComplete("parsed")
    /\ Symbols' = ResolveFile(Symbols, f)
    /\ pc' = [pc EXCEPT ![f] = "resolved"]
    /\ UNCHANGED <<src, GlobalScope, out, rerun, reported, ctx, query, result>>

\* the lowering of file f begins, once every file is resolved
StartLowering(f) ==
    /\ pc[f] = "resolved"
    /\ PhaseComplete("parsed")
    /\ PhaseComplete("symbols")
    /\ pc' = [pc EXCEPT ![f] = "lowering"]
    /\ UNCHANGED <<src, Symbols, GlobalScope, out, rerun, reported, ctx, query, result>>

\* the declarations the lowering of file f produces, or Panic
Lowering(f) ==
    ParseProgram(src[f], Symbols[f], 1, [i \in DOMAIN src[f].classes[1].members |-> <<>>])

\* the lowering of file f ends with the Go declarations of the file
FinishLowering(f) ==
    /\ pc[f] = "lowering"
    /\ \E decls \in {Lowering(f)} :
          /\ decls # Panic
          /\ out' = [out EXCEPT ![f] = decls]
    /\ pc' = [pc EXCEPT ![f] = "done"]
    /\ UNCHANGED <<src, Symbols, GlobalScope, rerun, reported, ctx, query, result>>

\* the lowering of file f panics: the file is reported and skipped
SkipFile(f) ==
    /\ pc[f] = "lowering"
    /\ Lowering(f) = Panic
    /\ pc' = SkipFailed(pc, f)
    /\ reported' = reported \cup {src[f].name}
    /\ UNCHANGED <<src, Symbols, GlobalScope, out, rerun, ctx, query, result>>

Next ==
    \/ \E f \in Files : RegisterSymbols(f)
    \/ \E f \in Files : Resolve(f)
    \/ \E f \in Files : StartLowering(f)
    \/ \E f \in Files : FinishLowering(f)
    \/ \E f \in Files : SkipFile(f)

Spec == Init /\ [][Next]_vars

----------------------------------------------------------------------------
(* Vocabulary of the statements about expression lowering *)

\* the classes from scope up its superclass chain, nearest first
RECURSIVE Ancestry(_, _, _)
Ancestry(c, scope, seen) ==
    IF scope = Nil THEN <<>>
    ELSE IF scope \in seen THEN <<>>
    ELSE <<scope>> \o Ancestry(c, resolveSuperclassScope(c, scope), seen \cup {scope})

\* the methods of one class an invocation of name with argc arguments matches
Matching(scope, name, argc, static) ==
    {d \in SeqRange(scope.Methods) :
        /\ ~d.Constructor
        /\ d.IsStatic = static
        /\ d.OriginalName = name
        /\ Len(d.Parameters) = argc}

\* the positions in the chain of the classes with a matching method
MatchPositions(chain, name, argc, static) ==
    {i \in DOMAIN chain : Matching(chain[i], name, argc, static) # {}}

HasMatch(chain, name, argc, static) == MatchPositions(chain, name, argc, static) # {}

\* the nearest class of the chain with a matching method
MatchOwner(chain, name, argc, static) ==
    chain[MinOf(MatchPositions(chain, name, argc, static))]

\* the matching method of the nearest class (the classes at hand declare at
\* most one method of a name, a kind and a parameter count)
MatchDef(chain, name, argc, static) ==
    CHOOSE d \in Matching(MatchOwner(chain, name, argc, static), name, argc, static) : TRUE

\* a function expression without its type arguments
StripTypeArgs(fun) == IF fun.e = "Index" THEN fun.X ELSE fun

IsPlainCall(expr, name, args) ==
    /\ expr.e = "Call"
    /\ StripTypeArgs(expr.Fun) = Ident(name)
    /\ expr.Args = args

IsMethodCall(expr, receiver, name, args) ==
    expr = CallExpr(SelectorExpr(receiver, name), args)

\* New<C><M>Helper[...](receiver).M(args)
IsHelperCall(expr, owner, def, receiver, args) ==
    /\ expr.e = "Call"
    /\ expr.Args = args
    /\ expr.Fun.e = "Selector"
    /\ expr.Fun.Sel = def.Name
    /\ expr.Fun.X.e = "Call"
    /\ expr.Fun.X.Args = <<receiver>>
    /\ StripTypeArgs(expr.Fun.X.Fun) = Ident(s_New \o owner.Class.Name \o def.Name \o s_Helper)

Lowered(kind, qualified) ==
    /\ result # Nil
    /\ query.kind = kind
    /\ (query.object # Nil) = qualified

QueryArgs == [i \in DOMAIN query.args |-> ParseExpr(query.args[i], ctx)]
QueryArgc == Len(query.args)

\* the member being lowered is a static method or a static initializer
StaticContext == ctx.localScope.IsStatic \/ ctx.localScope.OriginalName = <<>>

\* the receiver variable of the member being lowered
Recv == Ident(ShortName(ctx.className))

----------------------------------------------------------------------------
(* C7: qualified invocations *)

\* the class the object of the invocation names, Nil when it names none
ObjectClass ==
    IF query.object.kind = "identifier"
    THEN resolveClassScopeByQualifiedName(ctx, query.object.name)
    ELSE Nil

ObjectExpr == ParseExpr(query.object, ctx)

\* the superclass chain of the type of the object, empty when the type is unknown
ObjectChain ==
    LET target == resolveInvocationTarget(query.object, ctx)
    IN  IF target = Nil THEN <<>> ELSE Ancestry(ctx, target.classScope, {})

ClassStaticApplies ==
    /\ ObjectClass # Nil
    /\ Matching(ObjectClass, query.name, QueryArgc, TRUE) # {}

HelperApplies ==
    /\ ~ClassStaticApplies
    /\ HasMatch(ObjectChain, query.name, QueryArgc, FALSE)
    /\ MatchDef(ObjectChain, query.name, QueryArgc, FALSE).RequiresHelper

InstanceApplies ==
    /\ ~ClassStaticApplies
    /\ HasMatch(ObjectChain, query.name, QueryArgc, FALSE)
    /\ ~MatchDef(ObjectChain, query.name, QueryArgc, FALSE).RequiresHelper

InstanceStaticApplies ==
    /\ ~ClassStaticApplies
    /\ ~HasMatch(ObjectChain, query.name, QueryArgc, FALSE)
    /\ HasMatch(ObjectChain, query.name, QueryArgc, TRUE)

\* the rules (1), (3) and (4) of the resolution order
QualifiedPlainRules ==
    /\ ClassStaticApplies =>
          IsPlainCall(result,
                      (CHOOSE d \in Matching(ObjectClass, query.name, QueryArgc, TRUE) :
                          TRUE).Name,
                      QueryArgs)
    /\ InstanceApplies =>
          IsMethodCall(result, ObjectExpr,
                       MatchDef(ObjectChain, query.name, QueryArgc, FALSE).Name, QueryArgs)
    /\ InstanceStaticApplies =>
          IsPlainCall(result, MatchDef(ObjectChain, query.name, QueryArgc, TRUE).Name,
                      QueryArgs)

\* C7 as stated: a qualified invocation o.m(args) is resolved by the first
\* applicable of (1) o names a class with a matching static method: M(args);
\* (2) a helper-required method matches in the hierarchy of o's type:
\* New<Helper>[...](o).M(args); (3) an instance method matches in the
\* hierarchy: o.M(args); (4) the matched method is static: M(args)
C7_AsStated ==
    Lowered("method_invocation", TRUE) =>
        /\ QualifiedPlainRules
        /\ HelperApplies =>
              IsHelperCall(result, MatchOwner(ObjectChain, query.name, QueryArgc, FALSE),
                           MatchDef(ObjectChain, query.name, QueryArgc, FALSE),
                           ObjectExpr, QueryArgs)

\* the receiver handed to the helper: o itself when the class of o declares
\* the method, the embedded ancestor o.<Owner> when an ancestor declares it
HelperReceiver(chain, object) ==
    LET owner == MatchOwner(chain, query.name, QueryArgc, FALSE)
    IN  IF owner = chain[1] THEN object ELSE SelectorExpr(object, owner.Class.Name)

\* C7: a qualified invocation o.m(args) is resolved by the first applicable of
\* (1) o names a class with a matching static method: M(args); (2) a
\* helper-required method matches in the hierarchy of o's type:
\* New<Helper>[...](r).M(args), r being o when o's class declares the method
\* and o.<Owner> when the ancestor Owner declares it; (3) an instance method
\* matches in the hierarchy: o.M(args); (4) the matched method is static: M(args)
C7_QualifiedInvocation ==
    Lowered("method_invocation", TRUE) =>
        /\ QualifiedPlainRules
        /\ HelperApplies =>
              IsHelperCall(result, MatchOwner(ObjectChain, query.name, QueryArgc, FALSE),
                           MatchDef(ObjectChain, query.name, QueryArgc, FALSE),
                           HelperReceiver(ObjectChain, ObjectExpr), QueryArgs)

\* a helper-required method inherited from an ancestor was invoked on an object
C7_Witness ==
    /\ Lowered("method_invocation", TRUE)
    /\ HelperApplies
    /\ MatchOwner(ObjectChain, query.name, QueryArgc, FALSE) # ObjectChain[1]
    /\ result.e = "Call"

----------------------------------------------------------------------------
(* C8: unqualified invocations *)

\* the superclass chain of the class being lowered
CurrentChain == Ancestry(ctx, ctx.currentClass, {})

ImplicitInstanceApplies == HasMatch(CurrentChain, query.name, QueryArgc, FALSE)

\* what follows when implicit-receiver resolution does not apply
UnqualifiedFallback ==
    ~ImplicitInstanceApplies =>
        IF HasMatch(CurrentChain, query.name, QueryArgc, TRUE)
        THEN IsPlainCall(result, MatchDef(CurrentChain, query.name, QueryArgc, TRUE).Name,
                         QueryArgs)
        ELSE IsPlainCall(result, query.name, QueryArgs)

\* C8 as stated: an unqualified invocation m(args) in a non-static context is
\* resolved first as the implicit-receiver call recv.M(args) through the class
\* hierarchy, else as a static method emitted as a plain call, else as a bare
\* call under its original name
C8_AsStated ==
    Lowered("method_invocation", FALSE) /\ ~StaticContext =>
        /\ ImplicitInstanceApplies =>
              IsMethodCall(result, Recv,
                           MatchDef(CurrentChain, query.name, QueryArgc, FALSE).Name,
                           QueryArgs)
        /\ UnqualifiedFallback

\* C8: an unqualified invocation m(args) in a non-static context is resolved
\* first through the implicit receiver and the class hierarchy, as
\* recv.M(args) for an ordinary instance method and as
\* New<Helper>[...](r).M(args) for a helper-required one (r being recv, or
\* recv.<Owner> when an ancestor declares the method); else as a static method
\* of the current class or of an ancestor, emitted as a plain call; else as a
\* bare call under its original name
C8_UnqualifiedInvocation ==
    Lowered("method_invocation", FALSE) /\ ~StaticContext =>
        /\ ImplicitInstanceApplies =>
              LET def == MatchDef(CurrentChain, query.name, QueryArgc, FALSE)
              IN  IF def.RequiresHelper
                  THEN IsHelperCall(result,
                                    MatchOwner(CurrentChain, query.name, QueryArgc, FALSE),
                                    def, HelperReceiver(CurrentChain, Recv), QueryArgs)
                  ELSE IsMethodCall(result, Recv, def.Name, QueryArgs)
        /\ UnqualifiedFallback

\* a helper-required method of the class itself was invoked without a qualifier
\* from one of its instance methods
C8_Witness ==
    /\ Lowered("method_invocation", FALSE)
    /\ ~StaticContext
    /\ ImplicitInstanceApplies
    /\ MatchDef(CurrentChain, query.name, QueryArgc, FALSE).RequiresHelper
    /\ MatchOwner(CurrentChain, query.name, QueryArgc, FALSE) = ctx.currentClass
    /\ result.e = "Call"

----------------------------------------------------------------------------
(* C9: identifiers *)

IsParameter == \E i \in DOMAIN ctx.localScope.Parameters :
                  ctx.localScope.Parameters[i].OriginalName = query.name

IsLocal == \E i \in DOMAIN ctx.localScope.Children :
              ctx.localScope.Children[i].OriginalName = query.name

\* the positions in the chain of the classes declaring a field of that name
FieldPositions(chain, name) ==
    {i \in DOMAIN chain : \E j \in DOMAIN chain[i].Fields :
                              chain[i].Fields[j].OriginalName = name}

\* the field of the nearest class of the chain declaring one of that name
FieldDef(chain, name) ==
    LET owner == chain[MinOf(FieldPositions(chain, name))]
    IN  CHOOSE d \in SeqRange(owner.Fields) : d.OriginalName = name

\* C9: an identifier resolves to a parameter of the member being lowered, else
\* to one of its locals, else to a field found along the superclass chain of
\* the current class, else stays as written; a field is emitted as
\* recv.<FieldExportedName> in an instance context and as the bare exported
\* field name in a static context
C9_Identifier ==
    Lowered("identifier", FALSE) =>
        IF IsParameter \/ IsLocal THEN result = Ident(query.name)
        ELSE IF FieldPositions(CurrentChain, query.name) # {}
        THEN IF StaticContext
             THEN result = Ident(FieldDef(CurrentChain, query.name).Name)
             ELSE result = SelectorExpr(Recv, FieldDef(CurrentChain, query.name).Name)
        ELSE result = Ident(query.name)

----------------------------------------------------------------------------
(* C10: object creation *)

\* the registered classes of a simple name, nested ones included
RegisteredClasses(name) ==
    {FileFindClassScope(Symbols[f], name) :
        f \in {g \in UNION {GlobalScope[pkg] : pkg \in DOMAIN GlobalScope} :
                  FileFindClassScope(Symbols[g], name) # Nil}}

CreationArgumentTypes == [i \in DOMAIN query.args |-> argumentType(query.args[i], ctx).type]

\* the constructors of registered classes of the created type that match by
\* name, argument count and compatible argument types
MatchingConstructors ==
    {findMatchingConstructor(cs, query.type, CreationArgumentTypes) :
        cs \in {k \in RegisteredClasses(query.type) :
                   findMatchingConstructor(k, query.type, CreationArgumentTypes) # Nil}}

\* C10: new C(args) is emitted as a call of the exported name of a matching
\* constructor of C whenever a registered scope holds one, and as
\* Construct<C>(args) only when none is found; the translation continues
C10_ObjectCreation ==
    Lowered("object_creation_expression", FALSE) =>
        /\ result # PanicExpr
        /\ IF MatchingConstructors # {}
           THEN \E d \in MatchingConstructors : IsPlainCall(result, d.Name, QueryArgs)
           ELSE IsPlainCall(result, s_Construct \o query.type, QueryArgs)

----------------------------------------------------------------------------
(* C1, C2: the phases of the driver and the shared registry *)

\* the symbols of file g are parsed and the package of g lists the file
Registered(g) ==
    /\ Symbols[g] # NoScope
    /\ g \in GlobalScope[src[g].package]

\* C1: whatever the files and the interleaving of the per-file work, no file
\* is being lowered, or has been, before the symbols of every file are parsed
\* and registered in the package scope
C1_LoweringAfterRegistration ==
    \A f \in Files :
        pc[f] \in {"lowering", "done", "failed"} => \A g \in Files : Registered(g)

\* the statements of the lowered bodies of the functions of a file
LoweredStatements(decls) ==
    UNION { SeqRange(decls[i].body.stmts) : i \in DOMAIN decls }

\* file 1 is lowered while file 2 is still being lowered, and its call of o()
\* was resolved to the method O its class inherits from the class of file 2
C1_Witness ==
    /\ pc[1] = "done"
    /\ pc[2] = "lowering"
    /\ CallExpr(SelectorExpr(Ident(ShortName(s_A)), Uppercase(s_o)), <<>>)
          \in LoweredStatements(out[1])

\* C2: once every file is registered no step writes to the package scope; the
\* FileScope of a file is rewritten by the resolution of that file and by no
\* step of another file; while a file is being lowered neither changes
C2_RegistryReadOnly ==
    [][ (\A g \in Files : Registered(g)) =>
            /\ GlobalScope' = GlobalScope
            /\ \A g \in Files :
                  Symbols'[g] # Symbols[g] => pc[g] = "symbols" /\ pc'[g] = "resolved"
            /\ (\E f \in Files : pc[f] = "lowering") => Symbols' = Symbols ]_vars

\* file 1 is lowered, file 2 is being lowered, and the resolution of each of
\* them has rewritten its own FileScope
C2_Witness ==
    /\ pc[1] = "done"
    /\ pc[2] = "lowering"
    /\ out[1] # NoOut
    /\ \A f \in {1, 2} : Registered(f) /\ Symbols[f] # ParseSymbols(src[f])

----------------------------------------------------------------------------
(* C3: two translations of the same files *)

\* C3: translating the same files twice yields the same declarations, in the
\* same order, whatever order the iterations over maps take
C3_Deterministic ==
    pc[1] = "done" /\ rerun # NoOut => rerun = out[1]

----------------------------------------------------------------------------
(* C4: structural failures *)

\* the expression is, or holds, an expression of a kind ParseExpr has no case for
RECURSIVE HasUnhandledExpr(_)
HasUnhandledExpr(node) ==
    \/ node.kind = "switch_expression"
    \/ IF node.object = Nil THEN FALSE ELSE HasUnhandledExpr(node.object)
    \/ \E i \in DOMAIN node.args : HasUnhandledExpr(node.args[i])

\* the file holds what the lowering fails on: a method node symbol parsing
\* has recorded no Definition for, or an expression without a case
StructurallyBroken(file) ==
    \E i \in DOMAIN file.classes :
        \E j \in DOMAIN file.classes[i].members :
            \/ file.classes[i].members[j].kind = "abstract_method_declaration"
            \/ \E k \in DOMAIN file.classes[i].members[j].body :
                  HasUnhandledExpr(file.classes[i].members[j].body[k])

\* a failed file is reported by name and has no output, no other file is
\* reported, and a file that came to its end failed exactly if it is broken
FailuresReported ==
    \A f \in Files :
        /\ pc[f] = "failed" => src[f].name \in reported /\ out[f] = NoOut
        /\ src[f].name \in reported => pc[f] = "failed"
        /\ pc[f] = "done" => out[f] # NoOut /\ out[f] # Panic
        /\ pc[f] \in {"done", "failed"} =>
              (pc[f] = "failed" <=> StructurallyBroken(src[f]))

\* the step in which a file fails leaves the phase and the output of every
\* other file as they are
FailureIsolated ==
    \A f \in Files :
        pc[f] # "failed" /\ pc'[f] = "failed" =>
            \A g \in Files \ {f} : pc'[g] = pc[g] /\ out'[g] = out[g]

\* every file has come to its end, the files without a defect with an output
AllFilesSettled ==
    \A f \in Files :
        IF StructurallyBroken(src[f]) THEN pc[f] = "failed"
        ELSE pc[f] = "done" /\ out[f] # NoOut

----------------------------------------------------------------------------
(* C5, C6: methods modelled by a helper *)

\* the number of emitted declarations satisfying P
CountDecls(decls, P(_)) == Cardinality({k \in DOMAIN decls : P(decls[k])})

\* the methods of the class recorded as requiring a helper
HelperMethods(cs) == {i \in DOMAIN cs.Methods : cs.Methods[i].RequiresHelper}

\* C5: for every method M of class C requiring a helper the declarations hold
\* exactly one struct <C><M>Helper, exactly one function New<C><M>Helper and
\* exactly one method M on that helper, and no method M on C itself; the
\* helper names of distinct such methods of a class are distinct
C5_HelperDecls ==
    pc[1] = "done" /\ out[1] # Panic =>
        LET cs == Symbols[1].BaseClass
        IN  /\ \A i \in HelperMethods(cs) :
                  LET M == cs.Methods[i].Name
                      helper == cs.Class.Name \o M \o s_Helper
                  IN  /\ CountDecls(out[1],
                            LAMBDA d : d.kind = "struct" /\ d.name = helper) = 1
                      /\ CountDecls(out[1],
                            LAMBDA d : /\ d.kind = "func"
                                       /\ d.recv = NoStr
                                       /\ d.name = s_New \o helper) = 1
                      /\ CountDecls(out[1],
                            LAMBDA d : d.kind = "func" /\ d.recv = helper /\ d.name = M) = 1
                      /\ CountDecls(out[1],
                            LAMBDA d : /\ d.kind = "func"
                                       /\ d.recv = cs.Class.Name
                                       /\ d.name = M) = 0
            /\ \A i, j \in HelperMethods(cs) :
                  i # j => cs.Methods[i].HelperName # cs.Methods[j].HelperName

\* the method and constructor nodes of a class body, in source order
RecordedNodes(members) ==
    SelectSeq(members,
              LAMBDA n : n.kind \in {"method_declaration", "constructor_declaration"})

\* C6: symbol parsing records one Definition for every method and constructor,
\* and the Definition requires a helper exactly if its node is a method, not
\* a constructor, that is not static and declares a type parameter of its own
C6_RequiresHelper ==
    pc[1] # "parsed" =>
        LET nodes == RecordedNodes(src[1].classes[1].members)
            defs == Symbols[1].BaseClass.Methods
        IN  /\ Len(defs) = Len(nodes)
            /\ \A i \in DOMAIN defs :
                  /\ defs[i].Constructor <=> nodes[i].kind = "constructor_declaration"
                  /\ defs[i].RequiresHelper <=>
                        /\ nodes[i].kind = "method_declaration"
                        /\ "static" \notin nodes[i].mods
                        /\ nodes[i].tparams # <<>>

\* the class declares a generic instance method, recorded as requiring a
\* helper, and a generic constructor, recorded as requiring none
C6_Witness ==
    /\ pc[1] = "symbols"
    /\ \E i, j \in DOMAIN Symbols[1].BaseClass.Methods :
          LET defs == Symbols[1].BaseClass.Methods
          IN  /\ defs[i].RequiresHelper
              /\ ~defs[i].IsStatic
              /\ defs[j].Constructor
              /\ defs[j].TypeParameters # <<>>
              /\ ~defs[j].RequiresHelper

----------------------------------------------------------------------------
(* Overloads: a class or an enum A with up to MaxOverloads methods m and   *)
(* constructors of one parameter, whose type is String, int or a type      *)
(* parameter T of the member; a call m(a) or a creation new A(a)           *)
(* lowered inside the first member, and the initializer of the constant    *)
(* K(a) of the enum.                                                       *)

MaxOverloads == 3

OverloadTypes == {s_String, s_int, s_T}

OverloadMethod(type, public) ==
    MethodNode(s_m, IF public THEN {"public"} ELSE {},
               IF type = s_T THEN <<TParam(s_T)>> ELSE <<>>,
               <<Param(s_x, type)>>, s_void, TRUE, <<>>)

OverloadConstructor(type, public) ==
    [ConstructorNode(s_A, IF public THEN {"public"} ELSE {}, <<Param(s_x, type)>>, <<>>)
        EXCEPT !.tparams = IF type = s_T THEN <<TParam(s_T)>> ELSE <<>>]

OverloadPool ==
    {OverloadMethod(type, public) : type \in OverloadTypes, public \in BOOLEAN}
    \cup {OverloadConstructor(type, public) : type \in OverloadTypes, public \in BOOLEAN}

OverloadLists ==
    {ms \in SeqsUpTo(OverloadPool, MaxOverloads) : ms # <<>> /\ DistinctSignatures(ms)}

\* an argument: a literal, or a name z of no known type
OverloadArgs == {IntLiteral, StringLiteral, Identifier(s_z)}

OverloadPrograms ==
    { [f \in Files |->
          IF f = 1 THEN FileNode(s_A, s_p, <<>>, <<class>>) ELSE FillerFile(f)]
      : class \in
          { ClassNode("class_declaration", s_A, {"public"}, <<>>, NoStr, <<>>, ms)
            : ms \in OverloadLists }
          \cup
          { ClassNode("enum_declaration", s_A, {"public"}, <<>>, NoStr,
                      <<[name |-> s_K, args |-> <<a>>, hasBody |-> FALSE, methods |-> <<>>]>>,
                      ms)
            : a \in OverloadArgs, ms \in OverloadLists } }

\* the context of the first member of the class of file 1
OverloadContexts ==
    { MemberCtx(ClassCtx(Symbols[1], Symbols[1].BaseClass), src[1].classes[1].members[1]) }

OverloadQueries ==
    {Invocation(Nil, s_m, <<a>>) : a \in OverloadArgs}
    \cup {Creation(s_A, <<a>>) : a \in OverloadArgs}

\* query is Nil when the initializer of the enum constant is what is lowered
InitOverload ==
    /\ src \in OverloadPrograms
    /\ Symbols = [f \in Files |-> ParseSymbols(src[f])]
    /\ GlobalScope = RegisterAll(EmptyRegistry, Symbols, 1)
    /\ pc = [f \in Files |-> "lowering"]
    /\ out = [f \in Files |-> NoOut]
    /\ rerun = NoOut
    /\ reported = {}
    /\ ctx \in OverloadContexts
    /\ query \in OverloadQueries \cup (IF Symbols[1].BaseClass.IsEnum THEN {Nil} ELSE {})
    /\ result = Nil

\* ParseExpr on the call m(a)
LowerOverloadedCall ==
    /\ query # Nil
    /\ Lower("method_invocation", FALSE)

\* ParseExpr on the creation new A(a)
LowerOverloadedCreation ==
    /\ query # Nil
    /\ Lower("object_creation_expression", FALSE)

\* ParseDecls building the value of the first constant of the enum
InitializeConstant ==
    /\ result = Nil
    /\ query = Nil
    /\ result' = buildEnumConstantInitializer(
                    ctx.currentClass.EnumConstants[1],
                    ClassCtx(ctx.currentFile, ctx.currentClass))
    /\ UNCHANGED <<src, pc, Symbols, GlobalScope, out, rerun, reported, ctx, query>>

NextOverload ==
    \/ LowerOverloadedCall
    \/ LowerOverloadedCreation
    \/ InitializeConstant

SpecOverload == InitOverload /\ [][NextOverload]_vars

----------------------------------------------------------------------------
(* C11: the first declared of several matching overloads *)

\* the arguments of the call at hand
CallArgNodes ==
    IF query = Nil THEN ctx.currentClass.EnumConstants[1].Arguments ELSE query.args

\* the Java type of an argument as far as it is known: that of a literal,
\* the empty string for a name of no known type
ArgJavaType(node) == argumentType(node, ctx).type

\* the argument type fits the declared type of the parameter
TypeFits(scope, d, i) ==
    \/ ArgJavaType(CallArgNodes[i]) = NoStr
    \/ d.Parameters[i].OriginalType = ArgJavaType(CallArgNodes[i])
    \/ d.Parameters[i].OriginalType \in SeqRange(ClassTypeParameterNames(scope))
    \/ d.Parameters[i].OriginalType \in SeqRange(TypeParamNames(d.TypeParameters))

\* d matches the call by original name, argument count and argument types
CallMatches(scope, d) ==
    /\ IF query = Nil THEN d.Constructor
       ELSE IF query.kind = "object_creation_expression"
            THEN d.Constructor /\ d.OriginalName = query.type
       ELSE ~d.Constructor /\ ~d.IsStatic /\ d.OriginalName = query.name
    /\ Len(d.Parameters) = Len(CallArgNodes)
    /\ \A i \in DOMAIN d.Parameters : TypeFits(scope, d, i)

MatchingOverloads(scope) ==
    {i \in DOMAIN scope.Methods : CallMatches(scope, scope.Methods[i])}

FirstMatchingOverload(scope) == scope.Methods[MinOf(MatchingOverloads(scope))]

CallArgs == [i \in DOMAIN CallArgNodes |-> ParseExpr(CallArgNodes[i], ctx)]

\* result is the call of the method or constructor d
Selects(d) ==
    IF query = Nil THEN result = CallExpr(Ident(d.Name), CallArgs)
    ELSE IF query.kind = "object_creation_expression"
    THEN IsPlainCall(result, d.Name, CallArgs)
    ELSE IF d.RequiresHelper
    THEN IsHelperCall(result, ctx.currentClass, d, Recv, CallArgs)
    ELSE IsMethodCall(result, Recv, d.Name, CallArgs)

\* C11: when several methods or constructors of the class match the call by
\* original name, argument count and argument types, the lowered call is the
\* call of the one declared first among them.
C11_FirstDeclared ==
    (result # Nil /\ Cardinality(MatchingOverloads(ctx.currentClass)) >= 2)
        => Selects(FirstMatchingOverload(ctx.currentClass))

----------------------------------------------------------------------------
(* Object creations in generic classes.  File 1 declares class A, generic  *)
(* in T or not, with an instance method m, a static method n and a nested  *)
(* class L; file 2 declares the generic class B<X>.  A creation of A, B or *)
(* L by bare name, with a diamond or with explicit type arguments is       *)
(* lowered inside m or n, under an expected type or none.                  *)

GenericClassA(generic) ==
    ClassNode("class_declaration", s_A, {"public"},
              IF generic THEN <<TParam(s_T)>> ELSE <<>>, NoStr, <<>>,
        << MethodNode(s_m, {"public"}, <<>>, <<>>, s_void, TRUE, <<>>),
           MethodNode(s_n, {"public", "static"}, <<>>, <<>>, s_void, TRUE, <<>>),
           ConstructorNode(s_A, {"public"}, <<>>, <<>>),
           ClassNode("class_declaration", s_L, {}, <<>>, NoStr, <<>>,
               << ConstructorNode(s_L, {}, <<>>, <<>>) >>) >>)

GenericClassB ==
    ClassNode("class_declaration", s_B, {"public"}, <<TParam(s_X)>>, NoStr, <<>>,
        << ConstructorNode(s_B, {"public"}, <<>>, <<>>) >>)

GenericPrograms ==
    { [f \in Files |->
          IF f = 1 THEN FileNode(s_A, s_p, <<>>, <<GenericClassA(generic)>>)
          ELSE IF f = 2 THEN FileNode(s_B, s_p, <<>>, <<GenericClassB>>)
          ELSE FillerFile(f)]
      : generic \in BOOLEAN }

\* the source text of a parameterized type
GenericText(base, args) == base \o <<"<">> \o JoinComma(args) \o <<">">>

\* the source text of a diamond
DiamondText(base) == base \o <<"<", ">">>

TypeArgLists ==
    { <<s_String>>, <<s_T>>, <<s_String, s_B>>, <<GenericText(s_B, <<s_String>>), s_T>> }

GenericCreatedClasses == {s_A, s_B, s_L}

ExpectedTypes ==
    {NoStr, s_B} \cup {GenericText(s_B, args) : args \in TypeArgLists}

GenericContexts ==
    LET cs == Symbols[1].BaseClass
        members == src[1].classes[1].members
    IN  { [MemberCtx(ClassCtx(Symbols[1], cs), members[i]) EXCEPT !.expectedType = e]
            : i \in {j \in DOMAIN members : members[j].kind = "method_declaration"},
              e \in ExpectedTypes }

GenericQueries ==
    { Creation(type, args) :
        type \in GenericCreatedClasses
                 \cup {DiamondText(cl) : cl \in GenericCreatedClasses}
                 \cup {GenericText(cl, targs) : cl \in GenericCreatedClasses,
                                                targs \in TypeArgLists},
        args \in {<<>>, <<IntLiteral>>} }

InitGeneric ==
    /\ src \in GenericPrograms
    /\ Symbols = [f \in Files |-> ParseSymbols(src[f])]
    /\ GlobalScope = RegisterAll(EmptyRegistry, Symbols, 1)
    /\ pc = [f \in Files |-> "lowering"]
    /\ out = [f \in Files |-> NoOut]
    /\ rerun = NoOut
    /\ reported = {}
    /\ ctx \in GenericContexts
    /\ query \in GenericQueries
    /\ result = Nil

IsRawCreation == query.type \in GenericCreatedClasses
IsDiamondCreation == \E cl \in GenericCreatedClasses : query.type = DiamondText(cl)
IsExplicitCreation ==
    \E cl \in GenericCreatedClasses, targs \in TypeArgLists : query.type = GenericText(cl, targs)

\* ParseExpr on new C(...)
LowerRawCreation ==
    /\ IsRawCreation
    /\ Lower("object_creation_expression", FALSE)

\* ParseExpr on new C<>(...)
LowerDiamondCreation ==
    /\ IsDiamondCreation
    /\ Lower("object_creation_expression", FALSE)

\* ParseExpr on new C<A...>(...)
LowerExplicitCreation ==
    /\ IsExplicitCreation
    /\ Lower("object_creation_expression", FALSE)

NextGeneric ==
    \/ LowerRawCreation
    \/ LowerDiamondCreation
    \/ LowerExplicitCreation

SpecGeneric == InitGeneric /\ [][NextGeneric]_vars

----------------------------------------------------------------------------
(* C12, C13: the type arguments of an object creation *)

\* the type arguments the lowered call is instantiated with
EmittedTypeArgs == IF result.Fun.e = "Index" THEN result.Fun.Indices ELSE <<>>

\* the lowering of Java type strings under the type parameters in scope
LoweredTypeArgs(args) ==
    [i \in DOMAIN args |-> javaTypeStringToGoTypeExpr(args[i], inScopeTypeParameters(ctx))]

CreationLowered == Lowered("object_creation_expression", FALSE) /\ result # PanicExpr

\* the created class is nested directly in the current class, which is generic
NestedInGenericClass ==
    /\ Len(ctx.currentClass.TypeParameters) > 0
    /\ \E cl \in GenericCreatedClasses :
          /\ query.type \in {cl, DiamondText(cl)}
          /\ \E i \in DOMAIN ctx.currentClass.Subclasses :
                ctx.currentClass.Subclasses[i].Class.OriginalName = cl

\* the type parameters of the enclosing class as type arguments
EnclosingTypeParams == typeParamExprs(ClassTypeParameterNames(ctx.currentClass))

\* a diamond takes the type arguments of the expected type, in order and lowered
DiamondInferred ==
    \A targs \in TypeArgLists :
        (IsDiamondCreation /\ ctx.expectedType = GenericText(s_B, targs))
            => EmittedTypeArgs = LoweredTypeArgs(targs)

\* explicit type arguments are emitted in order and lowered
ExplicitEmitted ==
    \A cl \in GenericCreatedClasses, targs \in TypeArgLists :
        query.type = GenericText(cl, targs) => EmittedTypeArgs = LoweredTypeArgs(targs)

\* C12 as stated: a diamond is emitted with the type arguments of the expected
\* type, a creation by bare name with no type arguments, explicit type
\* arguments as written.
C12_AsStated ==
    CreationLowered =>
        /\ DiamondInferred
        /\ IsRawCreation => EmittedTypeArgs = <<>>
        /\ ExplicitEmitted

\* C12, amended: a creation by bare name is emitted with no type arguments
\* unless the class is nested directly in the generic current class, when it
\* is emitted with the type parameters of that class.
C12_TypeArguments ==
    CreationLowered =>
        /\ DiamondInferred
        /\ IsRawCreation =>
              EmittedTypeArgs = IF NestedInGenericClass THEN EnclosingTypeParams ELSE <<>>
        /\ ExplicitEmitted

\* new L() inside generic A under the expected type B<String>, lowered with
\* the type parameter of A
C12_Witness ==
    /\ CreationLowered
    /\ query.type = s_L
    /\ ctx.expectedType = GenericText(s_B, <<s_String>>)
    /\ Len(ctx.currentClass.TypeParameters) > 0
    /\ EmittedTypeArgs = <<Ident(s_T)>>

\* C13 as stated: a diamond without a known left-hand-side type takes the type
\* parameters of the generic enclosing class when the created class is nested
\* in it, and no type arguments otherwise.
C13_AsStated ==
    (CreationLowered /\ IsDiamondCreation /\ ctx.expectedType = NoStr) =>
        EmittedTypeArgs = IF NestedInGenericClass THEN EnclosingTypeParams ELSE <<>>

\* C13, amended: a diamond without a known left-hand-side type is emitted with
\* no type arguments, nested or not; the type parameters of the generic
\* enclosing class are reused by the creation by bare name of a nested class.
C13_EnclosingTypeParams ==
    CreationLowered =>
        /\ (IsDiamondCreation /\ ctx.expectedType = NoStr) => EmittedTypeArgs = <<>>
        /\ (IsRawCreation /\ NestedInGenericClass) => EmittedTypeArgs = EnclosingTypeParams

\* new L<>() with no expected type inside generic A, lowered with no type arguments
C13_Witness ==
    /\ CreationLowered
    /\ NestedInGenericClass
    /\ ctx.expectedType = NoStr
    /\ query.type = DiamondText(s_L)
    /\ EmittedTypeArgs = <<>>

----------------------------------------------------------------------------
(* Type nodes of the concrete-syntax tree and their lowering *)

TypeIdentifier(name) == [kind |-> "type_identifier", name |-> name]
IntegralType(name) == [kind |-> "integral_type", name |-> name]
GenericType(base, args) == [kind |-> "generic_type", base |-> base, args |-> args]
ArrayTypeNode(elt) == [kind |-> "array_type", elt |-> elt]
ScopedTypeIdentifier(qualifier, name) ==
    [kind |-> "scoped_type_identifier", qualifier |-> qualifier, name |-> name]
\* ?, ? extends B, ? super B: how is "none", "extends" or "super"
Wildcard(how, bound) == [kind |-> "wildcard", how |-> how, bound |-> bound]

s_super == <<"s", "u", "p", "e", "r">>

\* node.Content(source): the source text of a type node
RECURSIVE Content(_)
Content(node) ==
    CASE node.kind = "generic_type" ->
            node.base \o <<"<">>
              \o JoinComma([i \in DOMAIN node.args |-> Content(node.args[i])]) \o <<">">>
      [] node.kind = "array_type" -> Content(node.elt) \o <<"[", "]">>
      [] node.kind = "scoped_type_identifier" -> node.qualifier \o <<".">> \o node.name
      [] node.kind = "wildcard" ->
            IF node.how = "none" THEN <<"?">>
            ELSE <<"?", " ">> \o (IF node.how = "extends" THEN s_extends ELSE s_super)
                    \o <<" ">> \o Content(node.bound)
      [] OTHER -> node.name

\* the isTypeParam helper of ParseTypeWithTypeParams and javaTypeStringToGoTypeExpr
isTypeParam(typeParams, name) == \E i \in DOMAIN typeParams : typeParams[i] = name

\* astutil.ParseTypeWithTypeParams on a type node, as the expression it
\* returns; a node kind without a case panics
RECURSIVE ParseTypeExpr(_, _)
ParseTypeExpr(node, typeParams) ==
    CASE node.kind = "integral_type" ->
            IF node.name = s_int THEN Ident(s_int32) ELSE PanicExpr
      [] node.kind = "generic_type" ->
            Let([i \in DOMAIN node.args |-> ParseTypeExpr(node.args[i], typeParams)],
                LAMBDA typeArgs :
                    IF Panics(typeArgs) THEN PanicExpr
                    ELSE IF Len(typeArgs) > 0
                    THEN StarExpr(IndexExpr(Ident(node.base), typeArgs))
                    ELSE StarExpr(Ident(node.base)))
      [] node.kind = "array_type" ->
            Let(ParseTypeExpr(node.elt, typeParams), LAMBDA elt :
                IF elt = PanicExpr THEN PanicExpr ELSE ArrayType(elt))
      [] node.kind = "type_identifier" ->
            IF node.name = s_String THEN Ident(s_string)
            ELSE IF isTypeParam(typeParams, node.name) THEN Ident(node.name)
            ELSE StarExpr(Ident(node.name))
      [] node.kind = "scoped_type_identifier" -> StarExpr(Ident(Content(node)))
      [] OTHER -> PanicExpr

----------------------------------------------------------------------------
(* The functions on type strings and type-parameter lists, each applied to *)
(* an input drawn from a bounded set.                                      *)

MaxTypeStrLen == 5

\* every string of at most MaxTypeStrLen characters over a class name, the
\* angle brackets and the comma
TypeStrChars == {"A", "<", ">", ","}

\* well-formed parameterized types, nested ones included, as written in source
TypeArgPool == {s_String, s_T, GenericText(s_B, <<s_String>>), GenericText(s_A, <<s_B, s_T>>)}

WellFormedTypeStrs ==
    {GenericText(s_A, targs) : targs \in SeqsUpTo(TypeArgPool, 2) \ {<<>>}}

ExtractQueries ==
    { [op |-> "extractTypeArgs", typeStr |-> s]
        : s \in SeqsUpTo(TypeStrChars, MaxTypeStrLen) \cup WellFormedTypeStrs }

\* type-parameter lists of a class and of a class or method nested in it;
\* the bound tells an inner T from the outer T it shadows
MaxTypeParams == 2

TypeParamPool == {[Name |-> n, Bounds |-> b] : n \in {s_T, s_X}, b \in {<<>>, <<s_B>>}}

MergeQueries ==
    { [op |-> "mergeTypeParams", outer |-> o, inner |-> i]
        : o \in SeqsUpTo(TypeParamPool, MaxTypeParams),
          i \in SeqsUpTo(TypeParamPool, MaxTypeParams) }

\* Java types as they stand in a type position: class names, type parameter
\* names, String, int, parameterized types over these and over wildcards,
\* arrays and a qualified name
TypeLeaves == {TypeIdentifier(s_T), TypeIdentifier(s_X), TypeIdentifier(s_B),
               TypeIdentifier(s_String), IntegralType(s_int)}

TypeArgumentNodes ==
    (TypeLeaves \ {IntegralType(s_int)})
      \cup {GenericType(s_B, <<TypeIdentifier(s_T)>>)}
      \cup {Wildcard("none", Nil), Wildcard("extends", TypeIdentifier(s_T)),
             Wildcard("extends", TypeIdentifier(s_B)), Wildcard("super", TypeIdentifier(s_B))}

\* one type argument, or two
TypeArgumentLists ==
    {<<a>> : a \in TypeArgumentNodes} \cup {<<a, b>> : a, b \in TypeArgumentNodes}

TypeNodes ==
    TypeLeaves
      \cup {GenericType(s_A, args) : args \in TypeArgumentLists}
      \cup {ArrayTypeNode(t) : t \in TypeLeaves}
      \cup {ScopedTypeIdentifier(s_A, s_B)}

TypePositions == {"field", "parameter", "spread_parameter", "return"}

\* the type of a member in a type position: the type parameters of the class
\* and, for a method, those of the method
LowerQueries ==
    { [op |-> o, position |-> pos, node |-> n, classParams |-> cp, methodParams |-> mp]
        : o \in {"lowerTypeNode", "lowerTypeString"}, pos \in TypePositions,
          n \in TypeNodes, cp \in {<<>>, <<s_T>>},
          mp \in {<<>>, <<s_X>>, <<s_T>>} }

TypeQueries ==
    ExtractQueries \cup MergeQueries
      \cup {q \in LowerQueries : q.position = "field" => q.methodParams = <<>>}

InitTypes ==
    /\ src = [f \in Files |-> FillerFile(f)]
    /\ Symbols = [f \in Files |-> NoScope]
    /\ GlobalScope = EmptyRegistry
    /\ pc = [f \in Files |-> "parsed"]
    /\ out = [f \in Files |-> NoOut]
    /\ rerun = NoOut
    /\ reported = {}
    /\ ctx = Nil
    /\ query \in TypeQueries
    /\ result = Nil

\* extractTypeArgsFromString on the type string at hand
ExtractTypeArgs ==
    /\ result = Nil
    /\ query.op = "extractTypeArgs"
    /\ result' = [value |-> extractTypeArgsFromString(query.typeStr)]
    /\ UNCHANGED <<src, pc, Symbols, GlobalScope, out, rerun, reported, ctx, query>>

\* MergeTypeParams on the two lists at hand
MergeParams ==
    /\ result = Nil
    /\ query.op = "mergeTypeParams"
    /\ result' = [value |-> MergeTypeParams(query.outer, query.inner)]
    /\ UNCHANGED <<src, pc, Symbols, GlobalScope, out, rerun, reported, ctx, query>>

NamedParams(names) == [i \in DOMAIN names |-> [Name |-> names[i], Bounds |-> <<>>]]

\* the type-parameter names in scope at the position at hand: those of the
\* class for a field, the merged list for a method
combinedTypeParamNames(q) ==
    IF q.position = "field" THEN q.classParams
    ELSE TypeParamNames(MergeTypeParams(NamedParams(q.classParams),
                                        NamedParams(q.methodParams)))

\* the type node the symbol parser lowers: for a field of a qualified type,
\* its last component
typeNodeAt(q) ==
    IF q.position = "field" /\ q.node.kind = "scoped_type_identifier"
    THEN TypeIdentifier(q.node.name)
    ELSE q.node

\* the lowering of the type node at a field, parameter, spread parameter or
\* return type
LowerTypeNode ==
    /\ result = Nil
    /\ query.op = "lowerTypeNode"
    /\ result' = [value |-> ParseTypeExpr(typeNodeAt(query), combinedTypeParamNames(query))]
    /\ UNCHANGED <<src, pc, Symbols, GlobalScope, out, rerun, reported, ctx, query>>

\* the lowering of the type's source text with the type parameters of the
\* class and the method in scope
LowerTypeString ==
    /\ result = Nil
    /\ query.op = "lowerTypeString"
    /\ result' = [value |-> javaTypeStringToGoTypeExpr(Content(query.node),
                                 query.classParams \o query.methodParams)]
    /\ UNCHANGED <<src, pc, Symbols, GlobalScope, out, rerun, reported, ctx, query>>

NextTypes ==
    \/ ExtractTypeArgs
    \/ MergeParams
    \/ LowerTypeNode
    \/ LowerTypeString

SpecTypes == InitTypes /\ [][NextTypes]_vars

----------------------------------------------------------------------------
(* C14: the type arguments of a type string *)

\* the angle-bracket depth after the first n characters of s
RECURSIVE DepthAt(_, _)
DepthAt(s, n) ==
    IF n = 0 THEN 0
    ELSE DepthAt(s, n - 1) + (IF s[n] = "<" THEN 1 ELSE IF s[n] = ">" THEN -1 ELSE 0)

\* every '>' closes an open '<' and no '<' stays open
Balanced(s) ==
    /\ \A n \in 0..Len(s) : DepthAt(s, n) >= 0
    /\ DepthAt(s, Len(s)) = 0

\* s has a comma outside all angle brackets
HasTopLevelComma(s) == \E n \in 1..Len(s) : s[n] = "," /\ DepthAt(s, n) = 0

Extracted(op) == result # Nil /\ query.op = op

\* C14: the arguments are the pieces between the commas at depth 0 of the
\* argument list (every argument balanced and free of a depth-0 comma, the
\* arguments of a well-formed type exactly those written), and a string with
\* unbalanced angle brackets yields the null result.
C14_TypeArgsOfString ==
    Extracted("extractTypeArgs") =>
        /\ \A i \in DOMAIN result.value :
              Balanced(result.value[i]) /\ ~HasTopLevelComma(result.value[i])
        /\ \A s \in WellFormedTypeStrs, targs \in SeqsUpTo(TypeArgPool, 2) :
              (query.typeStr = s /\ s = GenericText(s_A, targs)) => result.value = targs
        /\ ~Balanced(query.typeStr) => result.value = <<>>

----------------------------------------------------------------------------
(* C15: shadowing of type parameters *)

Redeclared(p, inner) == \E i \in DOMAIN inner : inner[i].Name = p.Name

\* C15: the effective in-scope list is the outer parameters whose names the
\* inner list does not redeclare, in their original order, followed by all
\* the inner parameters in their original order.
C15_Shadowing ==
    Extracted("mergeTypeParams") =>
        result.value = SelectSeq(query.outer, LAMBDA p : ~Redeclared(p, query.inner))
                          \o query.inner

\* one outer parameter shadowed, one kept, and the inner list appended
C15_Witness ==
    /\ Extracted("mergeTypeParams")
    /\ Len(query.outer) = 2 /\ Len(query.inner) >= 1
    /\ Redeclared(query.outer[1], query.inner)
    /\ ~Redeclared(query.outer[2], query.inner)
    /\ Len(result.value) = 1 + Len(query.inner)
    /\ result.value[1] = query.outer[2]

----------------------------------------------------------------------------
(* C16: type parameters stay bare, other reference types become pointers *)

TypeLowered == result # Nil /\ query.op \in {"lowerTypeNode", "lowerTypeString"}

InScopeTypeParams == query.classParams \o query.methodParams

\* expr is the lowering of the Java type node by the mapping of types: a
\* type parameter in scope is the bare identifier, any other class type a
\* pointer to the class, parameterized by its lowered arguments when it has
\* any; String, the primitive types and ? are left to their own rules
RECURSIVE LowersPerTable(_, _, _)
LowersPerTable(node, expr, tps) ==
    CASE node.kind = "type_identifier" ->
            IF node.name = s_String THEN TRUE
            ELSE IF \E i \in DOMAIN tps : tps[i] = node.name THEN expr = Ident(node.name)
            ELSE expr = StarExpr(Ident(node.name))
      [] node.kind = "scoped_type_identifier" ->
            expr.e = "Star" /\ expr.X \in {Ident(node.name), Ident(Content(node))}
      [] node.kind = "generic_type" ->
            /\ expr.e = "Star"
            /\ expr.X.e = "Index"
            /\ expr.X.X = Ident(node.base)
            /\ Len(expr.X.Indices) = Len(node.args)
            /\ \A i \in DOMAIN node.args :
                  LowersPerTable(node.args[i], expr.X.Indices[i], tps)
      [] node.kind = "array_type" ->
            expr.e = "Array" /\ LowersPerTable(node.elt, expr.Elt, tps)
      [] node.kind = "wildcard" ->
            node.how = "extends" => LowersPerTable(node.bound, expr, tps)
      [] OTHER -> TRUE

\* C16: in a field, parameter, spread parameter or return type and in the
\* type arguments within it, a type parameter in scope lowers to the bare
\* identifier and any other reference type to a pointer to the (possibly
\* parameterized) type, on the lowering of the type node and on the lowering
\* of the type string alike.
C16_TypeParamsBare ==
    TypeLowered => LowersPerTable(query.node, result.value, InScopeTypeParams)

----------------------------------------------------------------------------
(* Calls of a generic instance method g of class A from the method n of A. *)
(* g has one or two type parameters and up to two parameters, n has a type *)
(* parameter X of its own and parameters p (of type X) and q (a String);   *)
(* A has a field b of class B.                                             *)

InferTypeParams == {<<TParam(s_T)>>, <<TParam(s_T), TParam(s_X)>>}
InferParamTypes == {s_T, s_X, s_int}
InferParams ==
    {<<>>} \cup {<<Param(s_x, t)>> : t \in InferParamTypes}
           \cup {<<Param(s_x, t), Param(s_y, u)>> : t, u \in InferParamTypes}

InferClassA(tparams, params) ==
    ClassNode("class_declaration", s_A, {"public"}, <<>>, NoStr, <<>>,
        << FieldNode(s_b, {}, s_B),
           MethodNode(s_g, {"public"}, tparams, params, s_void, TRUE, <<>>),
           MethodNode(s_n, {"public"}, <<TParam(s_X)>>,
                      <<Param(s_p, s_X), Param(s_q, s_String)>>, s_void, TRUE, <<>>) >>)

InferPrograms ==
    { [f \in Files |->
          IF f = 1 THEN FileNode(s_A, s_p, <<>>, <<InferClassA(tparams, params)>>)
          ELSE IF f = 2 THEN FileNode(s_B, s_p, <<>>, <<ExprClassB>>)
          ELSE FillerFile(f)]
      : tparams \in InferTypeParams, params \in InferParams }

\* arguments of a known type (a field, two parameters, a creation) and one
\* whose type is not inferred (a literal)
InferArgs ==
    {Identifier(s_b), Identifier(s_p), Identifier(s_q), IntLiteral, Creation(s_B, <<>>)}
InferArgLists ==
    {<<>>} \cup {<<a>> : a \in InferArgs} \cup {<<a, b>> : a, b \in InferArgs}

\* the type arguments written at the call: none, or one per type parameter of g
ExplicitTypeArgs == {<<>>, <<s_String>>, <<s_B>>, <<s_B, s_String>>, <<s_X, s_B>>}

InferQueries ==
    { Node("method_invocation", s_g, object, args, targs, NoStr)
        : object \in {This, Nil}, args \in InferArgLists, targs \in ExplicitTypeArgs }

InitInfer ==
    /\ src \in InferPrograms
    /\ Symbols = [f \in Files |-> ParseSymbols(src[f])]
    /\ GlobalScope = RegisterAll(EmptyRegistry, Symbols, 1)
    /\ pc = [f \in Files |-> "lowering"]
    /\ out = [f \in Files |-> NoOut]
    /\ rerun = NoOut
    /\ reported = {}
    /\ ctx = MemberCtx(ClassCtx(Symbols[1], Symbols[1].BaseClass), src[1].classes[1].members[3])
    /\ query \in {q \in InferQueries :
                     Len(q.targs) \in {0, Len(src[1].classes[1].members[2].tparams)}}
    /\ result = Nil

\* ParseExpr on a call without type arguments
LowerInferredCall ==
    /\ result = Nil
    /\ query.targs = <<>>
    /\ result' = ParseExpr(query, ctx)
    /\ UNCHANGED <<src, pc, Symbols, GlobalScope, out, rerun, reported, ctx, query>>

\* ParseExpr on a call with type arguments
LowerExplicitCall ==
    /\ result = Nil
    /\ query.targs # <<>>
    /\ result' = ParseExpr(query, ctx)
    /\ UNCHANGED <<src, pc, Symbols, GlobalScope, out, rerun, reported, ctx, query>>

NextInfer ==
    \/ LowerInferredCall
    \/ LowerExplicitCall

SpecInfer == InitInfer /\ [][NextInfer]_vars

----------------------------------------------------------------------------
(* C17: the method type arguments of a rewritten call *)

\* the declaration of g
CalledMethod == src[1].classes[1].members[2]

\* the call was rewritten to NewAGHelper[...](recv).G(args)
Rewritten ==
    /\ result # Nil
    /\ result.e = "Call"
    /\ result.Fun.e = "Selector"
    /\ result.Fun.X.e = "Call"
    /\ StripTypeArgs(result.Fun.X.Fun) = Ident(s_New \o <<"A", "G">> \o s_Helper)

\* class A has no type parameters: every type argument of the helper is one
\* of the method
MethodTypeArgs ==
    IF result.Fun.X.Fun.e = "Index" THEN result.Fun.X.Fun.Indices ELSE <<>>

\* the lowered Java type of an argument of the call, read off the
\* declarations of b, p and q; Nil for the literal
ArgumentType(arg) ==
    IF arg = Identifier(s_b) \/ arg = Creation(s_B, <<>>) THEN StarExpr(Ident(s_B))
    ELSE IF arg = Identifier(s_p) THEN Ident(s_X)
    ELSE IF arg = Identifier(s_q) THEN Ident(s_string)
    ELSE Nil

\* the lowering of a type argument written at the call
WrittenType(t) ==
    IF t = s_String THEN Ident(s_string)
    ELSE IF t = s_X THEN Ident(s_X)
    ELSE StarExpr(Ident(t))

\* the lowered types of the arguments passed at the parameters declared with
\* the type parameter tp
TypesPassedFor(tp) ==
    { ArgumentType(query.args[j]) :
        j \in {k \in DOMAIN CalledMethod.params :
                  k <= Len(query.args) /\ CalledMethod.params[k].type = tp} } \ {Nil}

C17_WitnessExplicit ==
    /\ Rewritten
    /\ query.targs = <<s_B, s_String>>
    /\ TypesPassedFor(s_T) = {Ident(s_string)}
    /\ MethodTypeArgs = <<StarExpr(Ident(s_B)), Ident(s_string)>>

----------------------------------------------------------------------------
(* Classes with type parameters and one or two constructors, which may     *)
(* declare type parameters of their own, translated as a whole.            *)

CtorClassTypeParams == {<<>>, <<TParam(s_T)>>, <<TParam(s_T), TParam(s_X)>>}
CtorTypeParams == {<<>>, <<TParam(s_Z)>>, <<TParam(s_X)>>, <<TParam(s_Z), TParam(s_T)>>}
CtorParams == {<<>>, <<Param(s_x, s_T)>>, <<Param(s_x, s_int)>>}

CtorPool ==
    { [ConstructorNode(s_A, {"public"}, params, <<>>) EXCEPT !.tparams = tparams]
      : tparams \in CtorTypeParams, params \in CtorParams }

CtorLists ==
    {<<a>> : a \in CtorPool}
      \cup {ms \in {<<a, b>> : a, b \in CtorPool} : DistinctSignatures(ms)}

CtorPrograms ==
    { [f \in Files |->
          IF f = 1
          THEN FileNode(s_A, s_p, <<>>,
                        <<ClassNode("class_declaration", s_A, {"public"}, tparams, NoStr,
                                    <<>>, ms)>>)
          ELSE FillerFile(f)]
      : tparams \in CtorClassTypeParams, ms \in CtorLists }

InitCtor ==
    /\ src \in CtorPrograms
    /\ Symbols = [f \in Files |-> NoScope]
    /\ GlobalScope = EmptyRegistry
    /\ pc = [f \in Files |-> "parsed"]
    /\ out = [f \in Files |-> NoOut]
    /\ rerun = NoOut
    /\ reported = {}
    /\ ctx = Nil
    /\ query = Nil
    /\ result = Nil

SpecCtor == InitCtor /\ [][NextDecl]_vars

----------------------------------------------------------------------------
(* C18: the constructor functions of a generic class *)

CtorClass == src[1].classes[1]

NodeTypeParamNames(node) == [i \in DOMAIN node.tparams |-> node.tparams[i].name]

\* the constructors of the class and the functions NewA of the output, in order
CtorNodes == SelectSeq(CtorClass.members, LAMBDA n : n.kind = "constructor_declaration")
CtorDecls ==
    SelectSeq(out[1], LAMBDA d : d.kind = "func" /\ d.recv = NoStr /\ d.name = s_New \o s_A)

GenericClassTranslated ==
    pc[1] = "done" /\ out[1] # Panic /\ Len(CtorClass.tparams) > 0

\* *A[T, ...]: the pointer to the class instantiated with its type parameters
PointerToInstantiated ==
    <<"*">> \o s_A \o <<"[">> \o JoinComma(NodeTypeParamNames(CtorClass)) \o <<"]">>

\* the names of the class type parameters that the constructor does not redeclare
NotRedeclared(ctor) ==
    SelectSeq(NodeTypeParamNames(CtorClass),
              LAMBDA n : \A i \in DOMAIN ctor.tparams : ctor.tparams[i].name # n)

\* The claim as worded: New<C> declares the type parameters of the class
\* followed by those of the constructor, and returns a pointer to C
\* instantiated with the type parameters of the class.
C18_AsStated ==
    GenericClassTranslated =>
        /\ Len(CtorDecls) = Len(CtorNodes)
        /\ \A i \in DOMAIN CtorNodes :
              /\ CtorDecls[i].tparams =
                    NodeTypeParamNames(CtorClass) \o NodeTypeParamNames(CtorNodes[i])
              /\ CtorDecls[i].results = PointerToInstantiated

\* C18: for every constructor of a generic class C, the function New<C>
\* declares the type parameters of the class that the constructor does not
\* redeclare by name, followed by the type parameters of the constructor, in
\* that order, and its return type is a pointer to C instantiated with the
\* type parameters of the class.
C18_ConstructorTypeParams ==
    GenericClassTranslated =>
        /\ Len(CtorDecls) = Len(CtorNodes)
        /\ \A i \in DOMAIN CtorNodes :
              /\ CtorDecls[i].tparams =
                    NotRedeclared(CtorNodes[i]) \o NodeTypeParamNames(CtorNodes[i])
              /\ CtorDecls[i].results = PointerToInstantiated

\* class A<T, X> with the constructors <Z> A(T x) and <X> A():
\* NewA[T, X, Z] and NewA[T, X], both returning *A[T, X]
C18_Witness ==
    /\ GenericClassTranslated
    /\ Len(CtorNodes) = 2
    /\ CtorDecls[1].tparams = <<s_T, s_X, s_Z>>
    /\ CtorDecls[2].tparams = <<s_T, s_X>>
    /\ NodeTypeParamNames(CtorNodes[2]) = <<s_X>>
    /\ CtorDecls[1].results = <<"*">> \o s_A \o <<"[", "T", ",", " ", "X", "]">>

----------------------------------------------------------------------------
(* C19: <Enum>Values() and <Enum>ValueOf(name) *)

EnumNode == src[1].classes[1]

DeclaredConstants == [i \in DOMAIN EnumNode.constants |-> EnumNode.constants[i].name]

EnumTranslated ==
    /\ pc[1] = "done" /\ out[1] # Panic
    /\ EnumNode.kind = "enum_declaration"
    /\ Len(EnumNode.constants) >= 1

\* the declarations of the output that are functions of this name without receiver
FunctionsNamed(name) ==
    SelectSeq(out[1], LAMBDA d : d.kind = "func" /\ d.recv = NoStr /\ d.name = name)

\* the package variables of this name
VariablesNamed(name) == SelectSeq(out[1], LAMBDA d : d.kind = "var" /\ d.name = name)

\* C19: for every enum with at least one constant the output holds exactly
\* one function <Enum>Values(), returning the values slice, which lists all
\* the constants in declaration order; <Enum>ValueOf(name) has one case for
\* every declared constant, returning that constant, and a default branch
\* that panics.
C19_ValuesAndValueOf ==
    EnumTranslated =>
        /\ Len(FunctionsNamed(EnumNode.name \o s_Values)) = 1
        /\ LET values == FunctionsNamed(EnumNode.name \o s_Values)[1]
           IN  /\ values.body.form = "return"
               /\ Len(VariablesNamed(values.body.dflt)) = 1
               /\ VariablesNamed(values.body.dflt)[1].fields = DeclaredConstants
        /\ Len(FunctionsNamed(EnumNode.name \o s_ValueOf)) = 1
        /\ LET valueOf == FunctionsNamed(EnumNode.name \o s_ValueOf)[1]
           IN  /\ valueOf.body.form = "switch"
               /\ \A k \in SeqRange(DeclaredConstants) :
                     Cardinality({i \in DOMAIN valueOf.body.clauses :
                                     valueOf.body.clauses[i].const = k}) = 1
               /\ \A i \in DOMAIN valueOf.body.clauses :
                     /\ valueOf.body.clauses[i].const \in SeqRange(DeclaredConstants)
                     /\ valueOf.body.clauses[i].impl = valueOf.body.clauses[i].const
               /\ valueOf.body.dflt = <<"panic">>

\* an enum of two constants and a member, translated
C19_Witness ==
    /\ EnumTranslated
    /\ Len(EnumNode.constants) = 2
    /\ Len(EnumNode.members) >= 1
    /\ Len(FunctionsNamed(EnumNode.name \o s_ValueOf)[1].body.clauses) = 2

----------------------------------------------------------------------------
(* C20: the wrapper of an enum method overridden by constants *)

\* the instance method m() of the enum, when it declares one
IsMethodM(n) ==
    /\ n.kind = "method_declaration"
    /\ n.name = s_m
    /\ n.params = <<>>
    /\ "static" \notin n.mods

DeclaresM == \E i \in DOMAIN EnumNode.members : IsMethodM(EnumNode.members[i])

MethodM == EnumNode.members[CHOOSE i \in DOMAIN EnumNode.members : IsMethodM(EnumNode.members[i])]

\* the constants whose body declares m()
OverridingConstants ==
    { EnumNode.constants[i].name :
        i \in { k \in DOMAIN EnumNode.constants :
                  /\ EnumNode.constants[k].hasBody
                  /\ \E j \in DOMAIN EnumNode.constants[k].methods :
                        /\ EnumNode.constants[k].methods[j].name = s_m
                        /\ EnumNode.constants[k].methods[j].params = <<>> } }

OverriddenMethodTranslated ==
    /\ pc[1] = "done" /\ out[1] # Panic
    /\ EnumNode.kind = "enum_declaration"
    /\ DeclaresM
    /\ OverridingConstants # {}

\* the methods M on the enum struct that switch over the overriding constants
WrappersOfM ==
    SelectSeq(out[1], LAMBDA d :
        /\ d.kind = "func"
        /\ d.recv = EnumNode.name
        /\ d.name = <<"M">>
        /\ d.body.form = "switch"
        /\ {d.body.clauses[i].const : i \in DOMAIN d.body.clauses} = OverridingConstants)

C20_WitnessAbstract ==
    /\ OverriddenMethodTranslated
    /\ ~MethodM.hasBody
    /\ Len(WrappersOfM) = 1
    /\ WrappersOfM[1].body.dflt = <<"panic">>

----------------------------------------------------------------------------
(* Calls X.values() and X.m() from the methods of A.  File 1 holds the     *)
(* class or enum A with a nested class or enum L, file 2 the enum B, in    *)
(* the package of A or in another package, imported or not.                *)

EnumConstantK == [name |-> s_K, args |-> <<>>, hasBody |-> FALSE, methods |-> <<>>]

ValuesTypeA(kindA, kindL) ==
    ClassNode(kindA, s_A, {"public"}, <<>>, NoStr,
        IF kindA = "enum_declaration" THEN <<EnumConstantK>> ELSE <<>>,
        << FieldNode(s_b, {}, s_B),
           MethodNode(s_n, {"public"}, <<>>, <<>>, s_void, TRUE, <<>>),
           MethodNode(s_k, {"public", "static"}, <<>>, <<>>, s_void, TRUE, <<>>),
           ClassNode(kindL, s_L, {"public"}, <<>>, NoStr,
                     IF kindL = "enum_declaration" THEN <<EnumConstantK>> ELSE <<>>,
                     <<>>) >>)

ValuesEnumB ==
    ClassNode("enum_declaration", s_B, {"public"}, <<>>, NoStr, <<EnumConstantK>>,
        << MethodNode(s_m, {"public", "static"}, <<>>, <<>>, s_void, TRUE, <<>>) >>)

TypeKinds == {"class_declaration", "enum_declaration"}

ValuesPrograms ==
    { [f \in Files |->
          IF f = 1 THEN FileNode(s_A, s_p, IF imp THEN (s_B :> s_q) ELSE <<>>,
                                 <<ValuesTypeA(kindA, kindL)>>)
          ELSE IF f = 2 THEN FileNode(s_B, pkgB, <<>>, <<ValuesEnumB>>)
          ELSE FillerFile(f)]
      : kindA \in TypeKinds, kindL \in TypeKinds, imp \in BOOLEAN, pkgB \in Packages }

ValuesContexts ==
    { MemberCtx(ClassCtx(Symbols[1], Symbols[1].BaseClass), src[1].classes[1].members[i])
        : i \in {2, 3} }

ValuesQueries ==
    { Invocation(Identifier(x), name, args)
        : x \in {s_A, s_B, s_L, s_Z, s_b}, name \in {s_values, s_m},
          args \in {<<>>, <<IntLiteral>>} }

InitValues ==
    /\ src \in ValuesPrograms
    /\ Symbols = [f \in Files |-> ParseSymbols(src[f])]
    /\ GlobalScope = RegisterAll(EmptyRegistry, Symbols, 1)
    /\ pc = [f \in Files |-> "lowering"]
    /\ out = [f \in Files |-> NoOut]
    /\ rerun = NoOut
    /\ reported = {}
    /\ ctx \in ValuesContexts
    /\ query \in ValuesQueries
    /\ result = Nil

\* ParseExpr on X.values(...)
LowerValuesCall ==
    /\ result = Nil
    /\ query.name = s_values
    /\ result' = ParseExpr(query, ctx)
    /\ UNCHANGED <<src, pc, Symbols, GlobalScope, out, rerun, reported, ctx, query>>

\* ParseExpr on a call of another method
LowerOtherCall ==
    /\ result = Nil
    /\ query.name # s_values
    /\ result' = ParseExpr(query, ctx)
    /\ UNCHANGED <<src, pc, Symbols, GlobalScope, out, rerun, reported, ctx, query>>

NextValues ==
    \/ LowerValuesCall
    \/ LowerOtherCall

SpecValues == InitValues /\ [][NextValues]_vars

----------------------------------------------------------------------------
(* C21: X.values() *)

\* the enum the name X denotes in the file of A: A itself, the nested L, or
\* B when B is in the package of A or imported; Nil when X denotes no enum
NamedEnum(x) ==
    LET scope == resolveClassScopeByQualifiedName(ctx, x)
    IN  IF scope # Nil /\ scope.IsEnum THEN scope ELSE Nil

ValuesCallLowered ==
    /\ result # Nil
    /\ query.name = s_values
    /\ query.args = <<>>
    /\ query.object.kind = "identifier"
    /\ NamedEnum(query.object.name) # Nil

\* C21: every invocation X.values() where X names an enum known to the
\* translator is emitted as the call <X>Values().
C21_EnumValues ==
    ValuesCallLowered =>
        result = CallExpr(Ident(NamedEnum(query.object.name).Class.Name \o s_Values), <<>>)


----------------------------------------------------------------------------
(* Abstract methods of a class *)

s_bool == <<"b", "o", "o", "l">>
s_false == <<"f", "a", "l", "s", "e">>

\* zeroValueForType of a type identifier: nothing for void, "" for string,
\* false for bool, 0 for the numeric types, nil for the rest
zeroValueForType(name) ==
    CASE name \in {<<>>, s_void} -> Nil
      [] name = s_string -> [e |-> "BasicLit", Value |-> <<>>]
      [] name = s_bool -> Ident(s_false)
      [] name \in {s_int, s_int32} -> [e |-> "BasicLit", Value |-> <<"0">>]
      [] OTHER -> Ident(s_nil)

\* the statements panic("abstract method <name> not implemented") and, for a
\* method that returns a value, the return of the zero value of its type
abstractStub(name, type) ==
    <<[s |-> "panic", msg |-> <<"abstract method ">> \o name \o <<" not implemented">>]>>
    \o (IF zeroValueForType(type) = Nil THEN <<>>
        ELSE <<[s |-> "return", value |-> zeroValueForType(type)]>>)

\* the members of the class of file 1 that are methods without a body
AbstractMethods ==
    { i \in DOMAIN EnumNode.members :
        /\ EnumNode.members[i].kind = "method_declaration"
        /\ ~EnumNode.members[i].hasBody }

ClassWithAbstractMethodTranslated ==
    /\ pc[1] = "done" /\ out[1] # Panic
    /\ EnumNode.kind = "class_declaration"
    /\ AbstractMethods # {}

\* the Definition the symbol table holds for member i of the class of file 1
DefinitionOfMember(i) == MemberCtx(ClassCtx(Symbols[1], Symbols[1].BaseClass), EnumNode.members[i]).localScope

\* C22: for every abstract method m of a class that is not an enum the output
\* has a method on the class, under the emitted name of m, whose body panics
\* with "abstract method m not implemented" and then returns the zero value
\* of the return type of m.
C22_AbstractMethodStub ==
    ClassWithAbstractMethodTranslated =>
        \A i \in AbstractMethods :
            \E j \in DOMAIN out[1] :
                /\ out[1][j].kind = "func"
                /\ out[1][j].recv = EnumNode.name
                /\ out[1][j].name = DefinitionOfMember(i).Name
                /\ out[1][j].body.stmts =
                      abstractStub(EnumNode.members[i].name, DefinitionOfMember(i).Type)


----------------------------------------------------------------------------
(* Annotated members.  File 1 declares a class or an enum A with a field b *)
(* and a method m, each static or not and carrying no annotation, an       *)
(* annotation of the exclusion set or another annotation.                  *)

AnnotationSets == {{}, {"@Skip"}, {"@Keep"}}

AnnotatedField(static, annots) ==
    [FieldNode(s_b, IF static THEN {"static"} ELSE {}, s_int) EXCEPT !.annots = annots]

AnnotatedMethod(static, annots) ==
    [MethodNode(s_m, {"public"} \cup (IF static THEN {"static"} ELSE {}),
                <<>>, <<>>, s_void, TRUE, <<>>) EXCEPT !.annots = annots]

AnnotPrograms ==
    { [f \in Files |->
          IF f = 1
          THEN FileNode(s_A, s_p, <<>>,
                 <<ClassNode(kind, s_A, {"public"}, <<>>, NoStr,
                             IF kind = "enum_declaration" THEN <<EnumConstantK>> ELSE <<>>,
                             <<AnnotatedField(fs, fa), AnnotatedMethod(ms, ma)>>)>>)
          ELSE FillerFile(f)]
      : kind \in {"class_declaration", "enum_declaration"},
        fs \in BOOLEAN, fa \in AnnotationSets, ms \in BOOLEAN, ma \in AnnotationSets }

InitAnnot ==
    /\ src \in AnnotPrograms
    /\ Symbols = [f \in Files |-> NoScope]
    /\ GlobalScope = EmptyRegistry
    /\ pc = [f \in Files |-> "parsed"]
    /\ out = [f \in Files |-> NoOut]
    /\ rerun = NoOut
    /\ reported = {}
    /\ ctx = Nil
    /\ query = Nil
    /\ result = Nil

SpecAnnot == InitAnnot /\ [][NextDecl]_vars

\* a member carrying an annotation of the exclusion set
Excluded(member) == member.annots \cap excludedAnnotations # {}

\* the names the output declares as struct fields or package variables
EmittedFieldNames ==
    UNION { SeqRange(out[1][j].fields) :
              j \in { k \in DOMAIN out[1] : out[1][k].kind \in {"struct", "var"} } }

\* the names of the functions and methods of the output
EmittedFuncNames ==
    { out[1][j].name : j \in { k \in DOMAIN out[1] : out[1][k].kind = "func" } }

AnnotatedTranslated == pc[1] = "done" /\ out[1] # Panic /\ out[1] # NoOut

\* the emitted name of member i of the type of file 1
EmittedNameOfMember(i) ==
    IF EnumNode.members[i].kind = "field_declaration"
    THEN FindFieldByName(Symbols[1].BaseClass, EnumNode.members[i].name).Name
    ELSE DefinitionOfMember(i).Name

\* C23: a field or method carrying an annotation of the exclusion set is
\* absent from the output: no struct field, package variable or function is
\* produced for it.
C23_ExcludedAbsent ==
    AnnotatedTranslated =>
        \A i \in DOMAIN EnumNode.members :
            Excluded(EnumNode.members[i]) =>
                /\ EmittedNameOfMember(i) \notin EmittedFieldNames
                /\ EmittedNameOfMember(i) \notin EmittedFuncNames

\* the half of it that concerns methods
ExcludedMethodAbsent ==
    AnnotatedTranslated =>
        \A i \in DOMAIN EnumNode.members :
            (Excluded(EnumNode.members[i]) /\ EnumNode.members[i].kind = "method_declaration")
                => EmittedNameOfMember(i) \notin EmittedFuncNames

\* a method without the annotation is emitted
KeptMethodPresent ==
    AnnotatedTranslated =>
        \A i \in DOMAIN EnumNode.members :
            (~Excluded(EnumNode.members[i]) /\ EnumNode.members[i].kind = "method_declaration")
                => EmittedNameOfMember(i) \in EmittedFuncNames


----------------------------------------------------------------------------
(* Unsupported constructs.  File 1 declares a class or an enum A with a    *)
(* method n whose body is one statement over an instanceof test or a class *)
(* literal, and a method m that may carry an excluded annotation.          *)

UnsupportedStatements ==
    { IntLiteral,
      Parenthesized(IntLiteral),
      Parenthesized(InstanceOf(This)),
      Unary(<<"!">>, Parenthesized(InstanceOf(This))),
      Parenthesized(ClassLiteral) }

BadPrograms ==
    { [f \in Files |->
          IF f = 1
          THEN FileNode(s_A, s_p, <<>>,
                 <<ClassNode(kind, s_A, {"public"}, <<>>, NoStr,
                             IF kind = "enum_declaration" THEN <<EnumConstantK>> ELSE <<>>,
                             <<MethodNode(s_n, {"public"}, <<>>, <<>>, s_void, TRUE, <<stmt>>),
                               AnnotatedMethod(ms, ma)>>)>>)
          ELSE FillerFile(f)]
      : kind \in {"class_declaration", "enum_declaration"},
        stmt \in UnsupportedStatements, ms \in BOOLEAN, ma \in AnnotationSets }

InitBad ==
    /\ src \in BadPrograms
    /\ Symbols = [f \in Files |-> NoScope]
    /\ GlobalScope = EmptyRegistry
    /\ pc = [f \in Files |-> "parsed"]
    /\ out = [f \in Files |-> NoOut]
    /\ rerun = NoOut
    /\ reported = {}
    /\ ctx = Nil
    /\ query = Nil
    /\ result = Nil

SpecBad == InitBad /\ [][NextDecl]_vars

\* a BadExpr anywhere in an emitted expression
RECURSIVE ContainsBad(_)
ContainsBad(x) ==
    CASE x.e = "Bad" -> TRUE
      [] x.e \in {"Unary", "Paren", "Selector", "Star"} -> ContainsBad(x.X)
      [] x.e = "Call" ->
            ContainsBad(x.Fun) \/ \E i \in DOMAIN x.Args : ContainsBad(x.Args[i])
      [] x.e = "Index" ->
            ContainsBad(x.X) \/ \E i \in DOMAIN x.Indices : ContainsBad(x.Indices[i])
      [] x.e = "Array" -> ContainsBad(x.Elt)
      [] x.e = "CompositeLit" -> ContainsBad(x.Type)
      [] OTHER -> FALSE

\* no BadDecl among the declarations of the output
NoBadDecl == \A j \in DOMAIN out[1] : out[1][j].kind # "bad"

\* no BadExpr in the body of a declaration of the output
NoBadExpr ==
    \A j \in DOMAIN out[1] :
        \A k \in DOMAIN out[1][j].body.stmts : ~ContainsBad(out[1][j].body.stmts[k])

\* C24: no BadDecl or BadExpr marker produced for an unsupported construct
\* (instanceof, class literal, excluded or unsupported member) is in the
\* tree handed to the printer.
C24_NoBadMarker == AnnotatedTranslated => (NoBadDecl /\ NoBadExpr)

\* the half of it that concerns declarations
BadDeclsFiltered == AnnotatedTranslated => NoBadDecl


----------------------------------------------------------------------------
(* Emitted names.  File 1 declares a class, named A or z, with a field, a  *)
(* method, a constructor and a nested class L; L has a field and may nest  *)
(* a class X.  Each of them is public or not.                              *)

s_F == <<"F">>

Visibility(public) == IF public THEN {"public"} ELSE {}

\* the classes X nested in L: none, a public one, one that is not public
InnermostLists ==
    {<<>>} \cup { <<ClassNode("class_declaration", s_X, Visibility(pub), <<>>, NoStr, <<>>, <<>>)>>
                  : pub \in BOOLEAN }

NamesClass(name, pubA, fname, pubF, pubM, pubC, pubL, pubG, inner) ==
    ClassNode("class_declaration", name, Visibility(pubA), <<>>, NoStr, <<>>,
              << FieldNode(fname, Visibility(pubF), s_int),
                 MethodNode(s_m, Visibility(pubM), <<>>, <<>>, s_void, TRUE, <<>>),
                 ConstructorNode(name, Visibility(pubC), <<>>, <<>>),
                 ClassNode("class_declaration", s_L, Visibility(pubL), <<>>, NoStr, <<>>,
                           <<FieldNode(s_g, Visibility(pubG), s_int)>> \o inner) >>)

NamesPrograms ==
    { [f \in Files |->
          IF f = 1
          THEN FileNode(t[1], s_p, <<>>,
                        <<NamesClass(t[1], t[2], t[3], t[4], t[5], t[6], t[7], t[8], inner)>>)
          ELSE FillerFile(f)]
      : t \in {s_A, s_z} \X BOOLEAN \X {s_f, s_F} \X BOOLEAN \X BOOLEAN \X BOOLEAN
              \X BOOLEAN \X BOOLEAN,
        inner \in InnermostLists }

InitNames ==
    /\ src \in NamesPrograms
    /\ Symbols = [f \in Files |-> NoScope]
    /\ GlobalScope = EmptyRegistry
    /\ pc = [f \in Files |-> "parsed"]
    /\ out = [f \in Files |-> NoOut]
    /\ rerun = NoOut
    /\ reported = {}
    /\ ctx = Nil
    /\ query = Nil
    /\ result = Nil

SpecNames == InitNames /\ [][NextDecl]_vars

NamesTranslated == pc[1] = "done" /\ out[1] # Panic /\ out[1] # NoOut

\* a name with every letter in lower case
LowerAll(name) == [i \in DOMAIN name |-> ToLower(name[i])]

\* two names that differ at most in the case of their letters
SameLetters(a, b) == LowerAll(a) = LowerAll(b)

\* the leading letter of an emitted name agrees with the visibility of the member
LeadingLetterAgrees(name, node) ==
    /\ name # <<>>
    /\ IF "public" \in node.mods THEN IsUpperChar(name[1]) ELSE IsLowerChar(name[1])

\* the class of file 1, the class nested in it and the class nested in that
OuterNode == src[1].classes[1]
NestedNode == OuterNode.members[4]
HasInnermost == Len(NestedNode.members) = 2
InnermostNode == NestedNode.members[2]

\* the struct declarations of the output whose name is made of the letters given
StructsNamed(letters) ==
    { j \in DOMAIN out[1] : out[1][j].kind = "struct" /\ SameLetters(out[1][j].name, letters) }

\* the functions of the output whose name is made of the letters given
FuncsNamed(letters) ==
    { j \in DOMAIN out[1] : out[1][j].kind = "func" /\ SameLetters(out[1][j].name, letters) }

\* the field of the struct made of the letters given
FieldsNamed(structLetters, letters) ==
    UNION { { out[1][j].fields[k] :
                k \in { n \in DOMAIN out[1][j].fields :
                          SameLetters(out[1][j].fields[n], letters) } }
            : j \in StructsNamed(structLetters) }

\* the top-level class, its field, its method and its constructor, and the
\* field of the nested class, are each emitted once, with a leading letter
\* that agrees with their visibility
MembersAgree ==
    /\ Cardinality(StructsNamed(OuterNode.name)) = 1
    /\ \A j \in StructsNamed(OuterNode.name) : LeadingLetterAgrees(out[1][j].name, OuterNode)
    /\ Cardinality(FieldsNamed(OuterNode.name, OuterNode.members[1].name)) = 1
    /\ \A n \in FieldsNamed(OuterNode.name, OuterNode.members[1].name) :
          LeadingLetterAgrees(n, OuterNode.members[1])
    /\ Cardinality(FuncsNamed(s_m)) = 1
    /\ \A j \in FuncsNamed(s_m) : LeadingLetterAgrees(out[1][j].name, OuterNode.members[2])
    /\ Cardinality(FuncsNamed(s_New \o OuterNode.name)) = 1
    /\ \A j \in FuncsNamed(s_New \o OuterNode.name) :
          LeadingLetterAgrees(out[1][j].name, OuterNode.members[3])
    /\ Cardinality(FieldsNamed(OuterNode.name \o s_L, s_g)) = 1
    /\ \A n \in FieldsNamed(OuterNode.name \o s_L, s_g) :
          LeadingLetterAgrees(n, NestedNode.members[1])

\* the nested class is emitted once, with a leading letter that agrees with
\* its own visibility
NestedAgrees ==
    /\ Cardinality(StructsNamed(OuterNode.name \o s_L)) = 1
    /\ \A j \in StructsNamed(OuterNode.name \o s_L) :
          LeadingLetterAgrees(out[1][j].name, NestedNode)

\* the nested class is emitted once, with the leading letter of the
\* top-level class that encloses it
NestedFollowsOuter ==
    /\ Cardinality(StructsNamed(OuterNode.name \o s_L)) = 1
    /\ \A j \in StructsNamed(OuterNode.name \o s_L) :
          LeadingLetterAgrees(out[1][j].name, OuterNode)

ExportedName(node) == HandleExportStatus("public" \in node.mods, node.name)

\* the names of the struct declarations of the output
EmittedStructNames ==
    { out[1][j].name : j \in { k \in DOMAIN out[1] : out[1][k].kind = "struct" } }

\* the class nested in the top-level class is emitted under both names
NestedOnceNamed == ExportedName(OuterNode) \o ExportedName(NestedNode) \in EmittedStructNames

\* the class nested in the nested class is emitted under the three names
InnermostNamed ==
    ExportedName(OuterNode) \o ExportedName(NestedNode) \o ExportedName(InnermostNode)
        \in EmittedStructNames

\* C26: a nested type, at any nesting depth, is emitted under the exported
\* names of all its enclosing types, outermost first, followed by its own name.
C26_NestedTypeNames ==
    NamesTranslated => (NestedOnceNamed /\ (HasInnermost => InnermostNamed))

\* the half of it that concerns the types nested directly in a top-level type
NestedOnceHolds == NamesTranslated => NestedOnceNamed

\* a type nested twice is emitted under the names of its direct parent and its own
InnermostUnderParentOnly ==
    (NamesTranslated /\ HasInnermost) =>
        ExportedName(NestedNode) \o ExportedName(InnermostNode) \in EmittedStructNames


----------------------------------------------------------------------------
(* Calls of helper-required methods.  Class A, with no, one or two type    *)
(* parameters, declares the generic instance method g and may extend the   *)
(* generic class B of file 2, which declares the generic instance method   *)
(* h.  The calls are made from the method n of A: on this, unqualified,    *)
(* and on the field c of A, whose declared type is A, raw or with type     *)
(* arguments.                                                              *)

HelperClassTypeParams == {<<>>, <<TParam(s_T)>>, <<TParam(s_T), TParam(s_X)>>}
HelperMethodTypeParams == {<<TParam(s_Z)>>, <<TParam(s_T)>>, <<TParam(s_Z), TParam(s_T)>>}
HelperSuperclasses == {NoStr, s_B, s_B \o <<"<">> \o s_String \o <<">">>}

\* A with one type argument per type parameter of the class
FullTypeOfA(tparams) ==
    IF Len(tparams) = 0 THEN s_A
    ELSE s_A \o <<"<">> \o JoinComma([i \in DOMAIN tparams |-> s_String]) \o <<">">>

HelperClassA(tparams, mtparams, superclass, ctype) ==
    ClassNode("class_declaration", s_A, {"public"}, tparams, superclass, <<>>,
        << FieldNode(s_o, {}, ctype),
           MethodNode(s_g, {"public"}, mtparams, <<>>, s_void, TRUE, <<>>),
           MethodNode(s_n, {"public"}, <<>>, <<>>, s_void, TRUE, <<>>) >>)

HelperClassB ==
    ClassNode("class_declaration", s_B, {"public"}, <<TParam(s_K)>>, NoStr, <<>>,
        << MethodNode(s_h, {"public"}, <<TParam(s_Z)>>, <<>>, s_void, TRUE, <<>>) >>)

HelperPrograms ==
    { [f \in Files |->
          IF f = 1
          THEN FileNode(s_A, s_p, <<>>, <<HelperClassA(t[1], t[2], t[3], ctype)>>)
          ELSE IF f = 2 THEN FileNode(s_B, s_p, <<>>, <<HelperClassB>>)
          ELSE FillerFile(f)]
      : t \in HelperClassTypeParams \X HelperMethodTypeParams \X HelperSuperclasses,
        ctype \in UNION { {s_A, FullTypeOfA(tps)} : tps \in HelperClassTypeParams } }

HelperQueries ==
    { Invocation(object, name, <<>>) :
        object \in {This, Nil, Identifier(s_o)}, name \in {s_g, s_h} }

InitHelper ==
    /\ src \in { prog \in HelperPrograms :
                   prog[1].classes[1].members[1].type
                     \in {s_A, FullTypeOfA(prog[1].classes[1].tparams)} }
    /\ Symbols = [f \in Files |-> ParseSymbols(src[f])]
    /\ GlobalScope = RegisterAll(EmptyRegistry, Symbols, 1)
    /\ pc = [f \in Files |-> "lowering"]
    /\ out = [f \in Files |-> NoOut]
    /\ rerun = NoOut
    /\ reported = {}
    /\ ctx = MemberCtx(ClassCtx(Symbols[1], Symbols[1].BaseClass), src[1].classes[1].members[3])
    /\ query \in HelperQueries
    /\ result = Nil

\* ParseExpr on a call of g, declared by the class of the receiver
LowerOwnCall ==
    /\ result = Nil
    /\ query.name = s_g
    /\ result' = ParseExpr(query, ctx)
    /\ UNCHANGED <<src, pc, Symbols, GlobalScope, out, rerun, reported, ctx, query>>

\* ParseExpr on a call of h, declared by the superclass of the class of the receiver
LowerInheritedCall ==
    /\ result = Nil
    /\ query.name = s_h
    /\ result' = ParseExpr(query, ctx)
    /\ UNCHANGED <<src, pc, Symbols, GlobalScope, out, rerun, reported, ctx, query>>

NextHelper ==
    \/ LowerOwnCall
    \/ LowerInheritedCall

SpecHelper == InitHelper /\ [][NextHelper]_vars

\* the class that declares the method called, and the Definition of the method
HelperOwner == IF query.name = s_g THEN Symbols[1].BaseClass ELSE Symbols[2].BaseClass
HelperDef == HelperOwner.Methods[1]

\* the type parameters genInstanceGenericHelperDecls declares the helper struct with
DeclaredHelperTypeParams ==
    TypeParamNames(MergeTypeParams(HelperOwner.TypeParameters, HelperDef.TypeParameters))

\* the call was rewritten to New<Helper>[...](recv).M()
HelperCallRewritten ==
    /\ result # Nil
    /\ result.e = "Call"
    /\ result.Fun.e = "Selector"
    /\ result.Fun.X.e = "Call"
    /\ StripTypeArgs(result.Fun.X.Fun) = Ident(s_New \o HelperDef.HelperName)

\* the type arguments New<Helper> is instantiated with at the call
HelperTypeArgsAtCall ==
    IF result.Fun.X.Fun.e = "Index" THEN result.Fun.X.Fun.Indices ELSE <<>>

\* C27: a rewritten call of a helper-required method instantiates
\* New<Helper> with as many type arguments as the helper struct declares type
\* parameters, the type arguments of the method last, whether the declared
\* type of the receiver is raw, the method is inherited from a generic
\* ancestor or a type parameter of the method shadows one of the class.
C27_HelperTypeArgs ==
    HelperCallRewritten =>
        /\ Len(HelperTypeArgsAtCall) = Len(DeclaredHelperTypeParams)
        /\ \A i \in DOMAIN HelperDef.TypeParameters :
              LET k == Len(HelperTypeArgsAtCall) - Len(HelperDef.TypeParameters) + i
              IN  k \in DOMAIN HelperTypeArgsAtCall => HelperTypeArgsAtCall[k] = Ident(s_any)

\* the calls where no type parameter is shadowed and the receiver is typed in full
PlainHelperCall ==
    /\ HelperCallRewritten
    /\ query.name = s_g
    /\ query.object # Identifier(s_o)
    /\ \A i \in DOMAIN HelperDef.TypeParameters :
          HelperDef.TypeParameters[i].Name \notin SeqRange(TypeParamNames(HelperOwner.TypeParameters))

PlainHelperCallAgrees ==
    PlainHelperCall => Len(HelperTypeArgsAtCall) = Len(DeclaredHelperTypeParams)


\* a type parameter of the method called shadows one of its class
ShadowingCall ==
    \E i \in DOMAIN HelperDef.TypeParameters :
        HelperDef.TypeParameters[i].Name \in SeqRange(TypeParamNames(HelperOwner.TypeParameters))

\* the receiver is the field o, declared with the raw type of a generic class
RawReceiverCall ==
    /\ query.object = Identifier(s_o)
    /\ src[1].classes[1].members[1].type = s_A
    /\ src[1].classes[1].tparams # <<>>

CountAgrees == Len(HelperTypeArgsAtCall) = Len(DeclaredHelperTypeParams)

\* the inherited method h, called on a receiver that is not raw, of a class
\* that extends B with a type argument
InheritedCallAgrees ==
    (HelperCallRewritten /\ query.name = s_h /\ ~RawReceiverCall
       /\ src[1].classes[1].superclass # s_B) => CountAgrees

\* the own method g, called on a receiver that is not raw, nothing shadowed
UnshadowedCallAgrees ==
    (HelperCallRewritten /\ query.name = s_g /\ ~RawReceiverCall /\ ~ShadowingCall)
        => CountAgrees

ShadowingCallDisagrees ==
    (HelperCallRewritten /\ query.name = s_g /\ ~RawReceiverCall /\ ShadowingCall)
        => ~CountAgrees

RawReceiverCallDisagrees ==
    (HelperCallRewritten /\ query.name = s_g /\ RawReceiverCall /\ ~ShadowingCall)
        => ~CountAgrees


\* h, inherited from B<String>, called on this
InheritedCallReached ==
    /\ HelperCallRewritten /\ query.name = s_h /\ query.object = This
    /\ src[1].classes[1].superclass # s_B
    /\ CountAgrees


----------------------------------------------------------------------------
(* References to a static field.  Class A declares the static field f (or  *)
(* F), public or not, and an instance method, a static method, a           *)
(* constructor and a static initializer; one of the four holds a reference *)
(* to the field, written f or A.f.                                         *)

StaticFieldReferences(fname) == {Identifier(fname), FieldAccess(Identifier(s_A), fname)}

\* the four members, the i-th holding the statement
StaticFieldMembers(i, stmt) ==
    LET body(k) == IF k = i THEN <<stmt>> ELSE <<>>
    IN  << MethodNode(s_m, {"public"}, <<>>, <<>>, s_void, TRUE, body(1)),
           MethodNode(s_k, {"public", "static"}, <<>>, <<>>, s_void, TRUE, body(2)),
           ConstructorNode(s_A, {"public"}, <<>>, body(3)),
           StaticInitializerNode(body(4)) >>

StaticPrograms ==
    UNION { { [f \in Files |->
                 IF f = 1
                 THEN FileNode(s_A, s_p, <<>>,
                        <<ClassNode("class_declaration", s_A, {"public"}, <<>>, NoStr, <<>>,
                                    <<FieldNode(t[1], Visibility(t[2]) \cup {"static"}, s_int),
                                      FieldNode(s_b, {}, s_int)>>
                                    \o StaticFieldMembers(t[3], stmt))>>)
                 ELSE FillerFile(f)]
              : stmt \in StaticFieldReferences(t[1]) }
            : t \in {s_f, s_F} \X BOOLEAN \X (1..4) }

InitStatic ==
    /\ src \in StaticPrograms
    /\ Symbols = [f \in Files |-> NoScope]
    /\ GlobalScope = EmptyRegistry
    /\ pc = [f \in Files |-> "parsed"]
    /\ out = [f \in Files |-> NoOut]
    /\ rerun = NoOut
    /\ reported = {}
    /\ ctx = Nil
    /\ query = Nil
    /\ result = Nil

SpecStatic == InitStatic /\ [][NextDecl]_vars

\* the package-level variables the output declares
PackageVariables ==
    UNION { SeqRange(out[1][j].fields) :
              j \in { k \in DOMAIN out[1] : out[1][k].kind = "var" } }

\* the lowered references: the statements of the bodies of the output
LoweredReferences ==
    UNION { SeqRange(out[1][j].body.stmts) : j \in DOMAIN out[1] }

\* the member of A that holds the reference
ReferringMember ==
    CHOOSE i \in 3..6 : OuterNode.members[i].body # <<>>

\* C28: a reference to a static field, from an instance method, a
\* constructor, a static method or a static initializer, is emitted as the
\* bare name of the package-level variable the field was lowered to, never
\* as a selector on a receiver variable.
C28_StaticFieldBare ==
    NamesTranslated =>
        \A r \in LoweredReferences : r.e = "Ident" /\ r.Name \in PackageVariables

\* the unqualified references made from the static method are bare
StaticContextBare ==
    (NamesTranslated /\ ReferringMember = 4 /\ OuterNode.members[4].body[1].kind = "identifier")
        => \A r \in LoweredReferences : r.e = "Ident" /\ r.Name \in PackageVariables

\* the unqualified references made from the other members select the
\* variable on the receiver
OtherContextsSelect ==
    (NamesTranslated /\ ReferringMember # 4
       /\ OuterNode.members[ReferringMember].body[1].kind = "identifier")
        => \A r \in LoweredReferences :
              r.e = "Selector" /\ r.X = Ident(ShortName(s_A)) /\ r.Sel \in PackageVariables


----------------------------------------------------------------------------
(* Names of the top-level declarations.  Class A of file 1 nests the enums *)
(* L and X, each public or not, with constants among K and M.              *)

s_M == <<"M">>

UniqueConstantLists ==
    { [i \in DOMAIN names |-> [EnumConstantK EXCEPT !.name = names[i]]]
      : names \in {<<>>, <<s_K>>, <<s_M>>, <<s_K, s_M>>} }

UniquePrograms ==
    { [f \in Files |->
          IF f = 1
          THEN FileNode(s_A, s_p, <<>>,
                 <<ClassNode("class_declaration", s_A, {"public"}, <<>>, NoStr, <<>>,
                     << ClassNode("enum_declaration", s_L, Visibility(t[1]), <<>>, NoStr,
                                  t[2], <<>>),
                        ClassNode("enum_declaration", s_X, Visibility(t[3]), <<>>, NoStr,
                                  t[4], <<>>) >>)>>)
          ELSE FillerFile(f)]
      : t \in BOOLEAN \X UniqueConstantLists \X BOOLEAN \X UniqueConstantLists }

InitUnique ==
    /\ src \in UniquePrograms
    /\ Symbols = [f \in Files |-> NoScope]
    /\ GlobalScope = EmptyRegistry
    /\ pc = [f \in Files |-> "parsed"]
    /\ out = [f \in Files |-> NoOut]
    /\ rerun = NoOut
    /\ reported = {}
    /\ ctx = Nil
    /\ query = Nil
    /\ result = Nil

SpecUnique == InitUnique /\ [][NextDecl]_vars

\* the package-level names a declaration of the output declares: the name of
\* a type or function, the names of a var or const group; none for a method
DeclaredNames(d) ==
    CASE d.kind \in {"struct", "interface"} -> <<d.name>>
      [] d.kind = "func" -> IF d.recv = NoStr /\ d.name # s_init THEN <<d.name>> ELSE <<>>
      [] d.kind = "var" -> IF d.name = NoStr THEN d.fields ELSE <<d.name>>
      [] d.kind = "const" -> d.fields
      [] OTHER -> <<>>

RECURSIVE AllDeclaredNames(_)
AllDeclaredNames(decls) ==
    IF decls = <<>> THEN <<>>
    ELSE DeclaredNames(Head(decls)) \o AllDeclaredNames(Tail(decls))

NoDuplicates(names) == \A i, j \in DOMAIN names : i # j => names[i] # names[j]

\* C29: no two top-level declarations of the output for a package (struct
\* types, functions, constructors, helper types, package variables, enum
\* constant variables) have the same name.
C29_UniqueNames == NamesTranslated => NoDuplicates(AllDeclaredNames(out[1]))

\* the constants the two enums have in common
SharedConstants ==
    { OuterNode.members[1].constants[i].name : i \in DOMAIN OuterNode.members[1].constants }
      \cap { OuterNode.members[2].constants[i].name : i \in DOMAIN OuterNode.members[2].constants }

\* enums without a common constant give distinct names
DisjointEnumsUnique ==
    (NamesTranslated /\ SharedConstants = {}) => NoDuplicates(AllDeclaredNames(out[1]))


----------------------------------------------------------------------------
(* The walks up the superclass chain, one iteration of the loop at a time. *)
(* Class A of file 1 extends nothing, A, B or the unregistered class Z;    *)
(* class B of file 2 extends nothing, A or Z and may declare the members   *)
(* looked for.  A walk starts at A.                                        *)

WalkSuperclasses == {NoStr, s_A, s_B, s_Z}

WalkMembers(declared) ==
    IF declared
    THEN << FieldNode(s_f, {}, s_int),
            MethodNode(s_m, {"public"}, <<>>, <<>>, s_void, TRUE, <<>>),
            MethodNode(s_k, {"public", "static"}, <<>>, <<>>, s_void, TRUE, <<>>) >>
    ELSE <<>>

WalkPrograms ==
    { [f \in Files |->
          IF f = 1
          THEN FileNode(s_A, s_p, <<>>,
                 <<ClassNode("class_declaration", s_A, {"public"}, <<>>, t[1], <<>>, <<>>)>>)
          ELSE IF f = 2
          THEN FileNode(s_B, s_p, <<>>,
                 <<ClassNode("class_declaration", s_B, {"public"}, <<>>, t[2], <<>>,
                             WalkMembers(t[3]))>>)
          ELSE FillerFile(f)]
      : t \in WalkSuperclasses \X (WalkSuperclasses \ {s_B}) \X BOOLEAN }

WalkKinds == {"instance", "static", "field", "typeargs"}

\* the scope was visited before
AlreadySeen_Never(scope, seen) == FALSE

\* _, ok := seen[scope]
AlreadySeen(scope, seen) == scope \in seen

\* the state of a walk: the scope the loop is at, the type arguments mapped
\* so far, the scopes visited, and whether the loop has returned
WalkState(scope, args, seen, status) ==
    [scope |-> scope, args |-> args, seen |-> seen, status |-> status]

InitWalk ==
    /\ src \in WalkPrograms
    /\ Symbols = [f \in Files |-> ParseSymbols(src[f])]
    /\ GlobalScope = RegisterAll(EmptyRegistry, Symbols, 1)
    /\ pc = [f \in Files |-> "lowering"]
    /\ out = [f \in Files |-> NoOut]
    /\ rerun = NoOut
    /\ reported = {}
    /\ ctx = ClassCtx(Symbols[1], Symbols[1].BaseClass)
    /\ query = Nil
    /\ result = Nil

\* the call of one of the four functions on the scope of A
StartWalk ==
    /\ query = Nil
    /\ \E kind \in WalkKinds, start \in {1}, ancestor \in 1..2 :
          /\ kind # "typeargs" => ancestor = 1
          /\ query' = [kind |-> kind, start |-> start,
                       ancestor |-> Symbols[ancestor].BaseClass]
          /\ result' = WalkState(Symbols[start].BaseClass, <<>>, {}, "walking")
    /\ UNCHANGED <<src, pc, Symbols, GlobalScope, out, rerun, reported, ctx>>

\* what the body of the loop looks for in a scope
DeclaresWanted(kind, scope) ==
    CASE kind = "field" -> FindFieldByName(scope, s_f) # Nil
      [] kind = "instance" ->
            \E i \in DOMAIN scope.Methods :
                /\ ~scope.Methods[i].IsStatic
                /\ scope.Methods[i].OriginalName = s_m
                /\ Len(scope.Methods[i].Parameters) = 0
      [] OTHER ->
            \E i \in DOMAIN scope.Methods :
                /\ scope.Methods[i].IsStatic
                /\ scope.Methods[i].OriginalName = s_k
                /\ Len(scope.Methods[i].Parameters) = 0

\* one iteration of the loop of findInstanceMethodInHierarchy,
\* findStaticMethodInHierarchy or findFieldInHierarchy
StepLookup(kind) ==
    /\ query # Nil
    /\ query.kind = kind
    /\ result.status = "walking"
    /\ result' =
          IF result.scope = Nil THEN [result EXCEPT !.status = "notfound"]
          ELSE IF AlreadySeen(result.scope, result.seen)
          THEN [result EXCEPT !.status = "notfound"]
          ELSE IF DeclaresWanted(kind, result.scope)
          THEN [result EXCEPT !.status = "found", !.seen = @ \cup {result.scope}]
          ELSE [result EXCEPT !.scope = resolveSuperclassScope(ctx, result.scope),
                              !.seen = @ \cup {result.scope}]
    /\ UNCHANGED <<src, pc, Symbols, GlobalScope, out, rerun, reported, ctx, query>>

StepInstanceMethod == StepLookup("instance")
StepStaticMethod == StepLookup("static")
StepField == StepLookup("field")

\* one iteration of the loop of mapClassTypeArgsToAncestor
StepTypeArgs ==
    /\ query # Nil
    /\ query.kind = "typeargs"
    /\ result.status = "walking"
    /\ result' =
          IF result.scope = Nil THEN [result EXCEPT !.status = "notfound"]
          ELSE IF result.scope = query.ancestor THEN [result EXCEPT !.status = "found"]
          ELSE IF AlreadySeen(result.scope, result.seen)
          THEN [result EXCEPT !.status = "notfound"]
          ELSE Let(TrimSpace(result.scope.Superclass), LAMBDA superType :
               IF superType = <<>>
               THEN [result EXCEPT !.status = "notfound", !.seen = @ \cup {result.scope}]
               ELSE Let2(parseJavaTypeString(superType),
                         resolveClassScopeByQualifiedName(
                             ctx, parseJavaTypeString(superType).base),
                         LAMBDA parsed, parentScope :
                    IF parentScope = Nil
                    THEN [result EXCEPT !.status = "notfound",
                                        !.seen = @ \cup {result.scope}]
                    ELSE [result EXCEPT
                            !.scope = parentScope,
                            !.args = parentTypeArgs(parsed.args,
                                                    ClassTypeParameterNames(result.scope),
                                                    result.args,
                                                    inScopeTypeParameters(ctx)),
                            !.seen = @ \cup {result.scope}]))
    /\ UNCHANGED <<src, pc, Symbols, GlobalScope, out, rerun, reported, ctx, query>>

NextWalk ==
    \/ StartWalk
    \/ StepInstanceMethod
    \/ StepStaticMethod
    \/ StepField
    \/ StepTypeArgs

SpecWalk == InitWalk /\ [][NextWalk]_vars

\* the loop of a walk that can take a step does
SpecWalkLive == SpecWalk /\ WF_vars(NextWalk)

WalkEnded == query # Nil /\ result.status \in {"found", "notfound"}

\* the scope the walk started at
WalkStart == Symbols[query.start].BaseClass

\* what the functions return for the walk
WalkResultOf ==
    CASE query.kind = "instance" -> findInstanceMethodInHierarchy(WalkStart, s_m, 0, ctx) # Nil
      [] query.kind = "static" -> findStaticMethodInHierarchy(WalkStart, s_k, 0, ctx) # Nil
      [] query.kind = "field" -> findFieldInHierarchy(WalkStart, s_f, ctx) # Nil
      [] OTHER -> mapClassTypeArgsToAncestor(WalkStart, <<>>, query.ancestor, ctx).ok

\* the loop, iteration by iteration, ends as the function returns
WalkAgrees == WalkEnded => ((result.status = "found") = WalkResultOf)

\* the extends clauses of the chain walked form a cycle: the walk came back
\* to a scope it had visited
CycleMet ==
    /\ WalkEnded
    /\ result.status = "notfound"
    /\ result.scope # Nil
    /\ result.scope \in result.seen

\* the walk stopped at a class that extends the unregistered class Z
UnregisteredMet ==
    /\ WalkEnded
    /\ result.status = "notfound"
    /\ \E scope \in result.seen :
          /\ scope.Superclass = s_Z
          /\ resolveSuperclassScope(ctx, scope) = Nil

\* no walk visits a scope twice
NoScopeTwice == query # Nil => Cardinality(result.seen) <= NumFiles

\* the scope a walk may end at with a result: one that declares the member
\* looked for, or the ancestor the type arguments are mapped to
WantedAt(scope) ==
    /\ scope # Nil
    /\ IF query.kind = "typeargs" THEN scope = query.ancestor
       ELSE DeclaresWanted(query.kind, scope)

\* C30: every walk up the superclass chain (the lookup of an instance
\* method, of a static method, of a field, and the mapping of class type
\* arguments to an ancestor) ends, also when the extends clauses form a
\* cycle or name an unregistered class, and then with 'not found'.
C30_WalksTerminate == <>[](WalkEnded /\ (result.status = "found" => WantedAt(result.scope)))

\* a walk over the cycle A extends B, B extends A that found nothing
C30_Witness ==
    /\ CycleMet
    /\ Cardinality(result.seen) = 2

====
